---- MODULE Spec2Model ----
(***************************************************************************)
(* A model of the Java-to-Python translator: JavaGrammarLexer, TokenStream,*)
(* SimpleJavaParser, AstOptimizer, Translator and the boundary operation   *)
(* translate_java_to_python.                                               *)
(*                                                                         *)
(* Text is a sequence of one-character strings, so that lexing, literal    *)
(* parsing and rendering are computed on characters.  An ASTNode is a      *)
(* record [type, value, vnode, children]: value holds a tag or a text,     *)
(* vnode holds the node stored in ASTNode.value when that slot is an       *)
(* ASTNode (the target of a Call), and children is the ordered child list. *)
(***************************************************************************)
EXTENDS Integers, Sequences, FiniteSets, TLC

VARIABLES
    tree,      \* AstOptimizer: the AST handed to optimize
    result,    \* AstOptimizer: the AST after the passes run so far
    first,     \* AstOptimizer: the AST as the first pass returned it
    passes,    \* AstOptimizer: number of optimize calls made
    wraps,     \* AstOptimizer: number of construction steps of tree
    code,      \* JavaGrammarLexer._code: the source text
    _pos,      \* JavaGrammarLexer._pos: offset of the next character to scan
    tokens,    \* TokenStream.tokens: the tokens buffered so far
    filled,    \* TokenStream._fill_tokens has returned
    input,     \* SimpleJavaParser.tokens: the buffer of the stream it reads
    parsed,    \* SimpleJavaParser: the outcome of the parsing method run
    java,      \* the source text of the statement the AST was parsed from
    ast,       \* Translator: the AST handed to translate
    python_code, \* Translator: what translate returned
    java_code, \* translate_java_to_python: the source text
    outcome,   \* translate_java_to_python: how the call ended
    program,   \* the source text of the AST handed to analyze
    unit,      \* SemanticAnalyzer: the AST handed to analyze
    classes,   \* SemanticAnalyzer.classes
    errors,    \* SemanticAnalyzer.errors, as analyze returned it
    stream,    \* TokenStream: its tokens and its pos
    parser,    \* SimpleJavaParser: its current token
    lastcall,  \* the last call made on the stream or the parser, and what it returned
    stmt,      \* the source text of the statement parsed into the heap
    heap,      \* the ASTNode objects, by identity
    top,       \* the identity of the root object
    walk       \* _analyze_call: the locals of its method lookup

optVars == <<tree, result, first, passes, wraps>>
lexVars == <<code, _pos, tokens, filled>>
parseVars == <<input, parsed>>
transVars == <<java, ast, python_code>>
mainVars == <<java_code, outcome>>
semVars == <<program, unit, classes, errors>>
streamVars == <<stream, parser, lastcall>>
ownVars == <<stmt, heap, top>>
walkVars == <<walk>>

vars == <<optVars, lexVars, parseVars, transVars, mainVars, semVars, streamVars, ownVars, walkVars>>

\* the variables of the components a specification leaves alone
notOptVars == <<lexVars, parseVars, transVars, mainVars, semVars, streamVars, ownVars, walkVars>>
notLexVars == <<optVars, parseVars, transVars, mainVars, semVars, streamVars, ownVars, walkVars>>
notParseVars == <<optVars, lexVars, transVars, mainVars, semVars, streamVars, ownVars, walkVars>>
notTransVars == <<optVars, lexVars, parseVars, mainVars, semVars, streamVars, ownVars, walkVars>>
notMainVars == <<optVars, lexVars, parseVars, transVars, semVars, streamVars, ownVars, walkVars>>
notSemVars == <<optVars, lexVars, parseVars, transVars, mainVars, streamVars, ownVars, walkVars>>
notStreamVars == <<optVars, lexVars, parseVars, transVars, mainVars, semVars, ownVars, walkVars>>
notOwnVars == <<optVars, lexVars, parseVars, transVars, mainVars, semVars, streamVars, walkVars>>
notWalkVars == <<optVars, lexVars, parseVars, transVars, mainVars, streamVars, ownVars>>

-----------------------------------------------------------------------------
(* Text helpers *)

Digits == <<"0", "1", "2", "3", "4", "5", "6", "7", "8", "9">>

IsDigit(c) == \E i \in 1..10 : Digits[i] = c

DigitVal(c) == (CHOOSE i \in 1..10 : Digits[i] = c) - 1

Upper == <<"A","B","C","D","E","F","G","H","I","J","K","L","M",
           "N","O","P","Q","R","S","T","U","V","W","X","Y","Z">>

Lower == <<"a","b","c","d","e","f","g","h","i","j","k","l","m",
           "n","o","p","q","r","s","t","u","v","w","x","y","z">>

\* str.lower() on one character
LowerChar(c) ==
    IF \E i \in 1..26 : Upper[i] = c
    THEN Lower[CHOOSE i \in 1..26 : Upper[i] = c]
    ELSE c

\* str.lower()
ToLower(s) == [i \in 1..Len(s) |-> LowerChar(s[i])]

IsSpace(c) == c \in {" ", "\t", "\r", "\n"}

RECURSIVE LStrip(_)
LStrip(s) == IF s # <<>> /\ IsSpace(Head(s)) THEN LStrip(Tail(s)) ELSE s

RECURSIVE RStrip(_)
RStrip(s) ==
    IF s # <<>> /\ IsSpace(s[Len(s)]) THEN RStrip(SubSeq(s, 1, Len(s) - 1)) ELSE s

\* str.strip()
Strip(s) == RStrip(LStrip(s))

\* str.replace(a, b) for a one-character a and a text b
RECURSIVE Replace(_, _, _)
Replace(s, a, b) ==
    IF s = <<>> THEN <<>>
    ELSE (IF Head(s) = a THEN b ELSE <<Head(s)>>) \o Replace(Tail(s), a, b)

StartsWith(s, c) == s # <<>> /\ s[1] = c

EndsWith(s, c) == s # <<>> /\ s[Len(s)] = c

AllDigits(s) == s # <<>> /\ \A i \in 1..Len(s) : IsDigit(s[i])

\* value of a digit string, most significant digit first
RECURSIVE DigitsVal(_)
DigitsVal(s) ==
    IF s = <<>> THEN 0
    ELSE 10 * DigitsVal(SubSeq(s, 1, Len(s) - 1)) + DigitVal(s[Len(s)])

\* decimal digits of a natural number
RECURSIVE NatText(_)
NatText(n) ==
    IF n < 10 THEN <<Digits[n + 1]>>
    ELSE NatText(n \div 10) \o <<Digits[(n % 10) + 1]>>

\* str(int)
IntText(n) == IF n < 0 THEN <<"-">> \o NatText(-n) ELSE NatText(n)

RECURSIVE Pow10(_)
Pow10(k) == IF k = 0 THEN 1 ELSE 10 * Pow10(k - 1)

RECURSIVE Pow2(_)
Pow2(k) == IF k = 0 THEN 1 ELSE 2 * Pow2(k - 1)

Abs(n) == IF n < 0 THEN -n ELSE n

RECURSIVE Gcd(_, _)
Gcd(a, b) == IF b = 0 THEN a ELSE Gcd(b, a % b)

kwNull == <<"n","u","l","l">>
kwTrue == <<"t","r","u","e">>
kwFalse == <<"f","a","l","s","e">>

-----------------------------------------------------------------------------
(* Python values of literal texts.  k is the Python type; a float is the   *)
(* exact rational n/d in lowest terms with d > 0 (the literals of the      *)
(* model are small enough for a double to hold these values exactly or to  *)
(* round-trip through repr); a bool keeps its integer value in n.          *)

PyVal(k, n, d, s) == [k |-> k, n |-> n, d |-> d, s |-> s]

NoValue == PyVal("novalue", 0, 1, <<>>)
PyNone == PyVal("none", 0, 1, <<>>)
PyBool(b) == PyVal("bool", IF b THEN 1 ELSE 0, 1, <<>>)
PyInt(n) == PyVal("int", n, 1, <<>>)
PyStr(s) == PyVal("str", 0, 1, s)

PyFloat(n, d) ==
    LET g == Gcd(Abs(n), Abs(d))
        sg == IF d < 0 THEN -1 ELSE 1
    IN PyVal("float", sg * (n \div g), sg * (d \div g), <<>>)

\* isinstance(v, int): bool is a subclass of int
IsInt(v) == v.k \in {"int", "bool"}
\* isinstance(v, (int, float))
IsNum(v) == v.k \in {"int", "bool", "float"}
\* isinstance(v, bool)
IsBool(v) == v.k = "bool"
IsTrue(v) == v.k = "bool" /\ v.n = 1

\* int(text, 0) for decimal texts: an optional sign, then "0"s only or a
\* digit string without a leading zero.  Radix prefixes need letters
\* (x, o, b) that no literal text of the model holds.
IntParse(s) ==
    LET signed == s # <<>> /\ s[1] \in {"+", "-"}
        body == IF signed THEN Tail(s) ELSE s
        ok == /\ AllDigits(body)
              /\ (body[1] # "0" \/ \A i \in 1..Len(body) : body[i] = "0")
    IN IF ok
       THEN PyInt(IF signed /\ s[1] = "-" THEN -DigitsVal(body) ELSE DigitsVal(body))
       ELSE NoValue

\* float(text) for texts of the form [sign] digits [. [digits]] or
\* [sign] . digits, without an exponent.
FloatParse(s) ==
    LET signed == s # <<>> /\ s[1] \in {"+", "-"}
        body == IF signed THEN Tail(s) ELSE s
        dots == {i \in 1..Len(body) : body[i] = "."}
        p == IF dots = {} THEN Len(body) + 1 ELSE CHOOSE i \in dots : TRUE
        ip == SubSeq(body, 1, p - 1)
        fp == SubSeq(body, p + 1, Len(body))
        ok == /\ Cardinality(dots) <= 1
              /\ ip \o fp # <<>>
              /\ \A i \in 1..Len(ip) : IsDigit(ip[i])
              /\ \A i \in 1..Len(fp) : IsDigit(fp[i])
        mag == DigitsVal(ip \o fp)
    IN IF ok
       THEN PyFloat(IF signed /\ s[1] = "-" THEN -mag ELSE mag, Pow10(Len(fp)))
       ELSE NoValue

RECURSIVE StripSuffix(_)
StripSuffix(s) ==
    IF s # <<>> /\ s[Len(s)] \in {"l", "L", "f", "F", "d", "D"}
    THEN StripSuffix(SubSeq(s, 1, Len(s) - 1))
    ELSE s

_literal_to_value(text) ==
    LET s == Strip(text)
        ls == ToLower(s)
        stripped == Replace(StripSuffix(s), "_", <<>>)
    IN IF s = <<>> THEN NoValue
       ELSE IF ls = kwNull THEN PyNone
       ELSE IF ls = kwTrue THEN PyBool(TRUE)
       ELSE IF ls = kwFalse THEN PyBool(FALSE)
       ELSE IF \/ (StartsWith(s, "\"") /\ EndsWith(s, "\""))
               \/ (StartsWith(s, "'") /\ EndsWith(s, "'"))
            THEN PyStr(SubSeq(s, 2, Len(s) - 1))
       ELSE IF IntParse(stripped) # NoValue THEN IntParse(stripped)
       ELSE FloatParse(stripped)

MaxFracDigits == 16

\* the fraction digits of r/d (0 <= r < d) by long division
RECURSIVE FracText(_, _, _)
FracText(r, d, k) ==
    IF r = 0 \/ k = 0 THEN <<>>
    ELSE <<Digits[((10 * r) \div d) + 1]>> \o FracText((10 * r) % d, d, k - 1)

\* str(float) for a value n/d: the integer part, a point and the fraction
\* digits ("2.0" for an integral value)
FloatText(v) ==
    LET a == Abs(v.n)
        fr == FracText(a % v.d, v.d, MaxFracDigits)
    IN (IF v.n < 0 THEN <<"-">> ELSE <<>>) \o NatText(a \div v.d) \o <<".">>
       \o (IF fr = <<>> THEN <<"0">> ELSE fr)

_value_to_literal(v) ==
    IF v.k = "none" THEN kwNull
    ELSE IF v.k = "bool" THEN (IF v.n = 1 THEN kwTrue ELSE kwFalse)
    ELSE IF v.k = "int" THEN IntText(v.n)
    ELSE IF v.k = "float" THEN FloatText(v)
    ELSE <<"\"">> \o Replace(v.s, "\"", <<"\\", "\"">>) \o <<"\"">>

-----------------------------------------------------------------------------
(* Python operators on values, as _try_constant_fold_binary and            *)
(* _try_constant_fold_prefix evaluate them.  A result of NoValue stands    *)
(* for "no fold": an early return None or an exception caught by the       *)
(* except clause.                                                          *)

\* the printable ASCII characters in code point order (the grave accent,
\* which no text of the model holds, left out)
Ascii == <<
    " ", "!", "\"", "#", "$", "%", "&", "'", "(", ")", "*", "+",
    ",", "-", ".", "/", "0", "1", "2", "3", "4", "5", "6", "7",
    "8", "9", ":", ";", "<", "=", ">", "?", "@", "A", "B", "C",
    "D", "E", "F", "G", "H", "I", "J", "K", "L", "M", "N", "O",
    "P", "Q", "R", "S", "T", "U", "V", "W", "X", "Y", "Z", "[",
    "\\", "]", "^", "_", "a", "b", "c", "d", "e", "f", "g",
    "h", "i", "j", "k", "l", "m", "n", "o", "p", "q", "r", "s",
    "t", "u", "v", "w", "x", "y", "z", "{", "|", "}", "~">>

\* the rank of a character in code point order
Ord(c) == CHOOSE i \in 1..Len(Ascii) : Ascii[i] = c

\* s < t for Python strings: lexicographic by code point
RECURSIVE StrLess(_, _)
StrLess(s, t) ==
    IF t = <<>> THEN FALSE
    ELSE IF s = <<>> THEN TRUE
    ELSE IF Head(s) = Head(t) THEN StrLess(Tail(s), Tail(t))
    ELSE Ord(Head(s)) < Ord(Head(t))

\* x < y and x = y for numeric values (d > 0 on both sides)
NumLess(x, y) == x.n * y.d < y.n * x.d
NumEq(x, y) == x.n * y.d = y.n * x.d

\* Python's == on two values: never raises
PyEq(x, y) ==
    IF IsNum(x) /\ IsNum(y) THEN NumEq(x, y)
    ELSE IF x.k = "str" /\ y.k = "str" THEN x.s = y.s
    ELSE x.k = "none" /\ y.k = "none"

\* Python's < on two values; defined when Comparable
Comparable(x, y) == (IsNum(x) /\ IsNum(y)) \/ (x.k = "str" /\ y.k = "str")
PyLess(x, y) == IF IsNum(x) THEN NumLess(x, y) ELSE StrLess(x.s, y.s)

\* a % b with the sign of the divisor (Python), b # 0
PyMod(a, b) == IF b > 0 THEN a % b ELSE -((-a) % (-b))

\* the result of an int-or-float operation: int when both operands are
\* integers, float otherwise
NumResult(x, y, n, d) == IF IsInt(x) /\ IsInt(y) THEN PyInt(n) ELSE PyFloat(n, d)

PyAdd(x, y) == NumResult(x, y, x.n * y.d + y.n * x.d, x.d * y.d)
PySub(x, y) == NumResult(x, y, x.n * y.d - y.n * x.d, x.d * y.d)
PyMul(x, y) == NumResult(x, y, x.n * y.n, x.d * y.d)
\* true division: a float also for two integers
PyTrueDiv(x, y) == PyFloat(x.n * y.d, x.d * y.n)
PyRem(x, y) == NumResult(x, y, PyMod(x.n * y.d, y.n * x.d), x.d * y.d)

\* bitwise operators on Python integers (two's complement of any width)
RECURSIVE BitAnd(_, _)
BitAnd(a, b) ==
    IF a = 0 \/ b = 0 THEN 0
    ELSE IF a = -1 THEN b
    ELSE IF b = -1 THEN a
    ELSE 2 * BitAnd(a \div 2, b \div 2) + (a % 2) * (b % 2)

RECURSIVE BitOr(_, _)
BitOr(a, b) ==
    IF a = 0 THEN b
    ELSE IF b = 0 THEN a
    ELSE IF a = -1 \/ b = -1 THEN -1
    ELSE 2 * BitOr(a \div 2, b \div 2) + (IF a % 2 = 1 \/ b % 2 = 1 THEN 1 ELSE 0)

BitXor(a, b) == BitOr(a, b) - BitAnd(a, b)

\* a >> b for b >= 0: floor(a / 2^b)
ShiftRight(a, b) == a \div Pow2(b)

\* a variant in which a division by zero has the value 0
FoldBinaryValueZeroQuotient(op, l, r) ==
    IF op \in {"ADD", "SUB", "MUL", "DIV", "MOD"} THEN
        IF op = "ADD" /\ l.k = "str" /\ r.k = "str" THEN PyStr(l.s \o r.s)
        ELSE IF ~(IsNum(l) /\ IsNum(r)) THEN NoValue
        ELSE IF op = "ADD" THEN PyAdd(l, r)
        ELSE IF op = "SUB" THEN PySub(l, r)
        ELSE IF op = "MUL" THEN PyMul(l, r)
        ELSE IF op = "DIV" THEN (IF r.n = 0 THEN PyInt(0) ELSE PyTrueDiv(l, r))
        ELSE (IF r.n = 0 THEN NoValue ELSE PyRem(l, r))
    ELSE IF op \in {"GT", "LT", "GE", "LE"} THEN
        IF ~Comparable(l, r) THEN NoValue
        ELSE IF op = "GT" THEN PyBool(PyLess(r, l))
        ELSE IF op = "LT" THEN PyBool(PyLess(l, r))
        ELSE IF op = "GE" THEN PyBool(~PyLess(l, r))
        ELSE PyBool(~PyLess(r, l))
    ELSE IF op = "EQUAL" THEN PyBool(PyEq(l, r))
    ELSE IF op = "NOTEQUAL" THEN PyBool(~PyEq(l, r))
    ELSE IF op \in {"AND", "OR"} THEN
        IF ~(IsBool(l) /\ IsBool(r)) THEN NoValue
        ELSE IF op = "AND" THEN (IF l.n = 1 THEN r ELSE l)
        ELSE (IF l.n = 1 THEN l ELSE r)
    ELSE IF op \in {"BITAND", "BITOR", "CARET", "LSHIFT", "RSHIFT", "URSHIFT"} THEN
        IF ~(IsInt(l) /\ IsInt(r)) THEN NoValue
        ELSE IF op = "BITAND"
             THEN PyVal(IF IsBool(l) /\ IsBool(r) THEN "bool" ELSE "int", BitAnd(l.n, r.n), 1, <<>>)
        ELSE IF op = "BITOR"
             THEN PyVal(IF IsBool(l) /\ IsBool(r) THEN "bool" ELSE "int", BitOr(l.n, r.n), 1, <<>>)
        ELSE IF op = "CARET"
             THEN PyVal(IF IsBool(l) /\ IsBool(r) THEN "bool" ELSE "int", BitXor(l.n, r.n), 1, <<>>)
        ELSE (IF r.n < 0 THEN NoValue ELSE PyInt(ShiftRight(l.n, r.n)))
    ELSE NoValue

\* the value of `l op r` for the operators _try_constant_fold_binary folds
FoldBinaryValue(op, l, r) ==
    IF op \in {"ADD", "SUB", "MUL", "DIV", "MOD"} THEN
        IF op = "ADD" /\ l.k = "str" /\ r.k = "str" THEN PyStr(l.s \o r.s)
        ELSE IF ~(IsNum(l) /\ IsNum(r)) THEN NoValue
        ELSE IF op = "ADD" THEN PyAdd(l, r)
        ELSE IF op = "SUB" THEN PySub(l, r)
        ELSE IF op = "MUL" THEN PyMul(l, r)
        ELSE IF op = "DIV" THEN (IF r.n = 0 THEN NoValue ELSE PyTrueDiv(l, r))
        ELSE (IF r.n = 0 THEN NoValue ELSE PyRem(l, r))
    ELSE IF op \in {"GT", "LT", "GE", "LE"} THEN
        IF ~Comparable(l, r) THEN NoValue
        ELSE IF op = "GT" THEN PyBool(PyLess(r, l))
        ELSE IF op = "LT" THEN PyBool(PyLess(l, r))
        ELSE IF op = "GE" THEN PyBool(~PyLess(l, r))
        ELSE PyBool(~PyLess(r, l))
    ELSE IF op = "EQUAL" THEN PyBool(PyEq(l, r))
    ELSE IF op = "NOTEQUAL" THEN PyBool(~PyEq(l, r))
    ELSE IF op \in {"AND", "OR"} THEN
        IF ~(IsBool(l) /\ IsBool(r)) THEN NoValue
        ELSE IF op = "AND" THEN (IF l.n = 1 THEN r ELSE l)
        ELSE (IF l.n = 1 THEN l ELSE r)
    ELSE IF op \in {"BITAND", "BITOR", "CARET", "LSHIFT", "RSHIFT", "URSHIFT"} THEN
        IF ~(IsInt(l) /\ IsInt(r)) THEN NoValue
        ELSE IF op = "BITAND"
             THEN PyVal(IF IsBool(l) /\ IsBool(r) THEN "bool" ELSE "int", BitAnd(l.n, r.n), 1, <<>>)
        ELSE IF op = "BITOR"
             THEN PyVal(IF IsBool(l) /\ IsBool(r) THEN "bool" ELSE "int", BitOr(l.n, r.n), 1, <<>>)
        ELSE IF op = "CARET"
             THEN PyVal(IF IsBool(l) /\ IsBool(r) THEN "bool" ELSE "int", BitXor(l.n, r.n), 1, <<>>)
        ELSE (IF r.n < 0 THEN NoValue ELSE PyInt(ShiftRight(l.n, r.n)))
    ELSE NoValue

\* the value of `op val` for the operators _try_constant_fold_prefix folds
FoldPrefixValue(op, val) ==
    IF op = "ADD" THEN
        (IF ~IsNum(val) THEN NoValue
         ELSE IF val.k = "float" THEN val ELSE PyInt(val.n))
    ELSE IF op = "SUB" THEN
        (IF ~IsNum(val) THEN NoValue
         ELSE IF val.k = "float" THEN PyFloat(-val.n, val.d) ELSE PyInt(-val.n))
    ELSE IF op = "TILDE" THEN (IF IsInt(val) THEN PyInt(-val.n - 1) ELSE NoValue)
    ELSE IF op = "BANG" THEN (IF IsBool(val) THEN PyBool(val.n = 0) ELSE NoValue)
    ELSE NoValue

-----------------------------------------------------------------------------
(* ASTNode *)

\* ASTNode(type_, value, children) with a value that is not an ASTNode
ASTNode(t, v, c) == [type |-> t, value |-> v, vnode |-> <<>>, children |-> c]

\* ASTNode(type_, value, children) with an ASTNode as value
ASTNodeV(t, vn, c) == [type |-> t, value |-> "None", vnode |-> <<vn>>, children |-> c]

Literal(text) == ASTNode("Literal", text, <<>>)
Identifier(name) == ASTNode("Identifier", name, <<>>)
BinaryOp(op, l, r) == ASTNode("BinaryOp", op, <<l, r>>)
PrefixOp(op, x) == ASTNode("PrefixOp", op, <<x>>)
PostfixOp(op, x) == ASTNode("PostfixOp", op, <<x>>)
Ternary(c, t, f) == ASTNode("Ternary", "None", <<c, t, f>>)
Call(base, args) == ASTNodeV("Call", base, args)

\* the Optional[ASTNode] result None
NoNode == ASTNode("NoNode", "None", <<>>)

-----------------------------------------------------------------------------
(* AstOptimizer *)

enable_constant_folding == TRUE
enable_simplify == TRUE

_try_constant_fold_binary(node) ==
    IF Len(node.children) # 2 THEN NoNode
    ELSE LET left == node.children[1]
             right == node.children[2]
         IN IF left.type # "Literal" \/ right.type # "Literal" THEN NoNode
            ELSE LET l_val == _literal_to_value(left.value)
                     r_val == _literal_to_value(right.value)
                 IN IF l_val = NoValue \/ r_val = NoValue THEN NoNode
                    ELSE LET res == FoldBinaryValue(node.value, l_val, r_val)
                         IN IF res = NoValue THEN NoNode
                            ELSE Literal(_value_to_literal(res))

_try_constant_fold_prefix(node) ==
    IF node.children = <<>> THEN NoNode
    ELSE LET base == node.children[1]
         IN IF base.type # "Literal" THEN NoNode
            ELSE LET val == _literal_to_value(base.value)
                 IN IF val = NoValue THEN NoNode
                    ELSE LET res == FoldPrefixValue(node.value, val)
                         IN IF res = NoValue THEN NoNode
                            ELSE Literal(_value_to_literal(res))

_try_constant_fold_ternary(node) ==
    IF Len(node.children) # 3 THEN NoNode
    ELSE LET cond == node.children[1]
         IN IF cond.type # "Literal" THEN NoNode
            ELSE LET val == _literal_to_value(cond.value)
                 IN IF ~IsBool(val) THEN NoNode
                    ELSE IF val.n = 1 THEN node.children[2] ELSE node.children[3]

_is_int_literal_with_value(node, target) ==
    /\ node.type = "Literal"
    /\ LET val == _literal_to_value(node.value)
       IN IsInt(val) /\ val.n = target

\* a variant with one more rule: 0 * x and x * 0 become the literal 0
_simplify_binary_zero(node) ==
    IF Len(node.children) # 2 THEN node
    ELSE LET left == node.children[1]
             right == node.children[2]
             op == node.value
             l_val == IF left.type = "Literal" THEN _literal_to_value(left.value) ELSE NoValue
         IN IF op = "MUL" /\ _is_int_literal_with_value(left, 0) THEN left
            ELSE IF op = "MUL" /\ _is_int_literal_with_value(right, 0) THEN right
            ELSE IF op = "ADD" /\ _is_int_literal_with_value(left, 0) THEN right
            ELSE IF op = "ADD" /\ _is_int_literal_with_value(right, 0) THEN left
            ELSE IF op = "SUB" /\ _is_int_literal_with_value(right, 0) THEN left
            ELSE IF op = "MUL" /\ _is_int_literal_with_value(left, 1) THEN right
            ELSE IF op = "MUL" /\ _is_int_literal_with_value(right, 1) THEN left
            ELSE IF op \in {"AND", "OR"} /\ left.type = "Literal" /\ IsBool(l_val)
                 THEN IF op = "AND"
                      THEN (IF l_val.n = 1 THEN right ELSE left)
                      ELSE (IF l_val.n = 1 THEN left ELSE right)
            ELSE node

_simplify_binary(node) ==
    IF Len(node.children) # 2 THEN node
    ELSE LET left == node.children[1]
             right == node.children[2]
             op == node.value
             l_val == IF left.type = "Literal" THEN _literal_to_value(left.value) ELSE NoValue
         IN IF op = "ADD" /\ _is_int_literal_with_value(left, 0) THEN right
            ELSE IF op = "ADD" /\ _is_int_literal_with_value(right, 0) THEN left
            ELSE IF op = "SUB" /\ _is_int_literal_with_value(right, 0) THEN left
            ELSE IF op = "MUL" /\ _is_int_literal_with_value(left, 1) THEN right
            ELSE IF op = "MUL" /\ _is_int_literal_with_value(right, 1) THEN left
            ELSE IF op \in {"AND", "OR"} /\ left.type = "Literal" /\ IsBool(l_val)
                 THEN IF op = "AND"
                      THEN (IF l_val.n = 1 THEN right ELSE left)
                      ELSE (IF l_val.n = 1 THEN left ELSE right)
            ELSE node

\* the local rules of _optimize_node, applied to a node whose value and
\* children are already optimized
ApplyRules(node) ==
    LET t == node.type
        fb == _try_constant_fold_binary(node)
        fp == _try_constant_fold_prefix(node)
        ft == _try_constant_fold_ternary(node)
    IN IF t = "BinaryOp" /\ enable_constant_folding /\ fb # NoNode THEN fb
       ELSE IF t = "BinaryOp" /\ enable_simplify THEN _simplify_binary(node)
       ELSE IF t = "PrefixOp" /\ enable_constant_folding /\ fp # NoNode THEN fp
       ELSE IF t = "Ternary" /\ enable_constant_folding /\ ft # NoNode THEN ft
       ELSE node

RECURSIVE _optimize_node(_)

\* a variant that examines the parent before its children are optimized
_optimize_node_preorder(node) ==
    LET r == ApplyRules(node)
    IN [r EXCEPT !.vnode = [i \in 1..Len(r.vnode) |-> _optimize_node(r.vnode[i])],
                 !.children = [i \in 1..Len(r.children) |-> _optimize_node(r.children[i])]]

_optimize_node(node) ==
    ApplyRules([node EXCEPT
        !.vnode = [i \in 1..Len(node.vnode) |-> _optimize_node(node.vnode[i])],
        !.children = [i \in 1..Len(node.children) |-> _optimize_node(node.children[i])]])

optimize(root) == _optimize_node(root)

-----------------------------------------------------------------------------
(* A component that a specification does not run stays as constructed. *)

OptIdle == tree = NoNode /\ result = NoNode /\ first = NoNode /\ passes = 0 /\ wraps = 0
LexIdle == code = <<>> /\ _pos = 0 /\ tokens = <<>> /\ filled = FALSE

\* no parsing method has run
NotParsed == [st |-> "none", pos |-> 0, val |-> <<>>]
ParseIdle == input = <<>> /\ parsed = NotParsed

\* nothing translated yet, and translate_java_to_python not called yet
NotTranslated == [done |-> FALSE, text |-> <<>>]
TransIdle == java = <<>> /\ ast = NoNode /\ python_code = NotTranslated
NotRun == [st |-> "none", text |-> <<>>]
MainIdle == java_code = <<>> /\ outcome = NotRun

\* analyze has not been called; st is how the call ended
NotAnalyzed == [st |-> "none", list |-> <<>>]
SemIdle == program = <<>> /\ unit = NoNode /\ classes = <<>> /\ errors = NotAnalyzed

\* no stream constructed, and no statement parsed into objects
NoToken == [type |-> "None", text |-> <<>>]
NoCall == [name |-> "none", k |-> 0, token |-> NoToken, answer |-> "None"]
NoCurrent == [current |-> NoToken, _current_class_name |-> <<>>]
StreamIdle == stream = [tokens |-> <<>>, pos |-> 0] /\ parser = NoCurrent /\ lastcall = NoCall
OwnIdle == stmt = <<>> /\ heap = <<>> /\ top = 0

\* no method looked up
NoWalk == [pc |-> "none", method_name |-> <<>>, target_class |-> <<>>, current |-> <<>>,
           visited |-> {}, candidates |-> <<>>, iterations |-> 0, type |-> <<>>]
WalkIdle == walk = NoWalk

-----------------------------------------------------------------------------
(* The optimizer's specification: an expression is built bottom-up from a  *)
(* leaf by wrapping it into BinaryOp, PrefixOp, Ternary and Call nodes, is *)
(* placed into a statement list, and optimize is called on it twice.       *)

MaxWraps == 2

ExprStmt(e) == ASTNode("ExprStmt", "None", <<e>>)
Assign(l, r) == ASTNode("Assign", "None", <<l, r>>)
Block(stmts) == ASTNode("Block", "None", stmts)
IfStatement(cond, then) == ASTNodeV("IfStatement", cond, <<ASTNode("Then", "None", then)>>)

\* the call f<i>() of a method whose name carries the index i
CallNamed(i) == Call(Identifier(<<"f", Digits[i + 1]>>), <<>>)

\* the operands a wrap at construction step i may add beside the expression
Siblings(i) == {Literal(kwTrue), CallNamed(i)}

Leaves == {Literal(<<"0">>), Literal(<<"1">>), Literal(kwFalse),
           Identifier(<<"x">>), CallNamed(0)}

OptBinaryOps == {"ADD", "MUL", "AND", "OR"}
OptPrefixOps == {"BANG", "INC"}

\* the statement list the expression e is optimized in
Program(e) ==
    Block(<<ExprStmt(CallNamed(9)),
            Assign(Identifier(<<"y">>), e),
            IfStatement(BinaryOp("AND", Literal(kwTrue), CallNamed(8)),
                        <<ExprStmt(PostfixOp("DEC", Identifier(<<"y">>))),
                          ASTNode("Break", "None", <<>>)>>)>>)

OptInit ==
    /\ tree \in Leaves
    /\ result = NoNode
    /\ first = NoNode
    /\ passes = 0
    /\ wraps = 0
    /\ LexIdle /\ ParseIdle /\ TransIdle /\ MainIdle /\ SemIdle /\ StreamIdle /\ OwnIdle /\ WalkIdle

WrapBinary ==
    /\ passes = 0 /\ wraps < MaxWraps
    /\ \E op \in OptBinaryOps, sib \in Siblings(wraps + 1), left \in BOOLEAN :
          tree' = IF left THEN BinaryOp(op, sib, tree) ELSE BinaryOp(op, tree, sib)
    /\ wraps' = wraps + 1
    /\ UNCHANGED <<result, first, passes>>
    /\ UNCHANGED notOptVars

WrapPrefix ==
    /\ passes = 0 /\ wraps < MaxWraps
    /\ \E op \in OptPrefixOps : tree' = PrefixOp(op, tree)
    /\ wraps' = wraps + 1
    /\ UNCHANGED <<result, first, passes>>
    /\ UNCHANGED notOptVars

WrapTernary ==
    /\ passes = 0 /\ wraps < MaxWraps
    /\ \E a \in {Literal(kwTrue), CallNamed(wraps + 1)},
          b \in {CallNamed(wraps + 5)},
          pos \in 1..3 :
          tree' = IF pos = 1 THEN Ternary(tree, a, b)
                  ELSE IF pos = 2 THEN Ternary(a, tree, b)
                  ELSE Ternary(a, b, tree)
    /\ wraps' = wraps + 1
    /\ UNCHANGED <<result, first, passes>>
    /\ UNCHANGED notOptVars

WrapCall ==
    /\ passes = 0 /\ wraps < MaxWraps
    /\ tree' = Call(Identifier(<<"g", Digits[wraps + 2]>>), <<tree>>)
    /\ wraps' = wraps + 1
    /\ UNCHANGED <<result, first, passes>>
    /\ UNCHANGED notOptVars

\* optimizer.optimize(ast), first call
Optimize ==
    /\ passes = 0
    /\ result' = optimize(Program(tree))
    /\ first' = result'
    /\ passes' = 1
    /\ UNCHANGED <<tree, wraps>>
    /\ UNCHANGED notOptVars

\* optimizer.optimize(...) on the AST the first call returned
OptimizeAgain ==
    /\ passes = 1
    /\ result' = optimize(result)
    /\ passes' = 2
    /\ UNCHANGED <<tree, first, wraps>>
    /\ UNCHANGED notOptVars

OptNext == WrapBinary \/ WrapPrefix \/ WrapTernary \/ WrapCall \/ Optimize \/ OptimizeAgain

SpecOpt == OptInit /\ [][OptNext]_vars

-----------------------------------------------------------------------------
(* C1, C2 *)

RECURSIVE Concat(_)
Concat(ss) == IF ss = <<>> THEN <<>> ELSE Head(ss) \o Concat(Tail(ss))

IsSideEffect(n) ==
    \/ n.type \in {"Call", "Assign", "PostfixOp"}
    \/ n.type = "PrefixOp" /\ n.value \in {"INC", "DEC"}

\* what identifies a side-effecting node: its kind and the called name or
\* the operator
Signature(n) ==
    IF n.type = "Call" THEN <<<<"Call">> \o n.vnode[1].value>>
    ELSE IF n.type = "Assign" THEN <<<<"Assign">>>>
    ELSE <<<<n.type, n.value>>>>

\* the side-effecting nodes of an AST, left to right
RECURSIVE SideEffects(_)
SideEffects(n) ==
    Concat([i \in 1..Len(n.vnode) |-> SideEffects(n.vnode[i])])
    \o Concat([i \in 1..Len(n.children) |-> SideEffects(n.children[i])])
    \o (IF IsSideEffect(n) THEN Signature(n) ELSE <<>>)

IsBoolLiteral(n) == n.type = "Literal" /\ IsBool(_literal_to_value(n.value))
IsLiteralTrue(n) == n.type = "Literal" /\ IsTrue(_literal_to_value(n.value))

\* the side-effecting nodes outside the operands that can never be
\* evaluated: the untaken branch of a Ternary whose optimized condition is a
\* boolean literal, and the right operand of && (||) whose optimized left
\* operand is the literal false (true)
RECURSIVE LiveSideEffects(_)
LiveSideEffects(n) ==
    LET c1 == optimize(n.children[1])
    IN IF n.type = "Ternary" /\ IsBoolLiteral(c1)
       THEN LiveSideEffects(n.children[1])
            \o LiveSideEffects(n.children[IF IsLiteralTrue(c1) THEN 2 ELSE 3])
       ELSE IF /\ n.type = "BinaryOp" /\ IsBoolLiteral(c1)
               /\ \/ n.value = "AND" /\ ~IsLiteralTrue(c1)
                  \/ n.value = "OR" /\ IsLiteralTrue(c1)
       THEN LiveSideEffects(n.children[1])
       ELSE Concat([i \in 1..Len(n.vnode) |-> LiveSideEffects(n.vnode[i])])
            \o Concat([i \in 1..Len(n.children) |-> LiveSideEffects(n.children[i])])
            \o (IF IsSideEffect(n) THEN Signature(n) ELSE <<>>)

IsStmtList(n) == n.type \in {"Block", "Then", "Else", "CaseLabel", "DefaultLabel",
                             "MethodDecl", "ConstructorDecl"}

\* the statement lists of an AST: for each, the kinds of its statements in order
RECURSIVE StmtLists(_)
StmtLists(n) ==
    (IF IsStmtList(n) THEN <<[i \in 1..Len(n.children) |-> n.children[i].type]>> ELSE <<>>)
    \o Concat([i \in 1..Len(n.vnode) |-> StmtLists(n.vnode[i])])
    \o Concat([i \in 1..Len(n.children) |-> StmtLists(n.children[i])])

C2_Idempotent == passes = 2 => result = first

\* the second pass has run on an AST that the first pass rewrote by a fold
\* and by a simplification
C2_Witness ==
    /\ passes = 2
    /\ first # Program(tree)
    /\ wraps = MaxWraps
    /\ tree.type = "BinaryOp"
    /\ first.children[2].children[2].type = "Call"

-----------------------------------------------------------------------------
(* JavaGrammarLexer.  A token is a record [type, text]; the line and the   *)
(* column that _advance_position also maintains are not modelled.          *)

Token(type, text) == [type |-> type, text |-> text]

Drop(s, n) == SubSeq(s, n + 1, Len(s))
IsPrefix(p, s) == Len(p) <= Len(s) /\ SubSeq(s, 1, Len(p)) = p

\* the number of leading characters of s that are in S, or are not in S
RECURSIVE SpanIn(_, _)
SpanIn(S, s) == IF s # <<>> /\ Head(s) \in S THEN 1 + SpanIn(S, Tail(s)) ELSE 0

RECURSIVE SpanNotIn(_, _)
SpanNotIn(S, s) == IF s # <<>> /\ Head(s) \notin S THEN 1 + SpanNotIn(S, Tail(s)) ELSE 0

\* the entry of a table of <<key, value>> pairs whose key is k, or 0
Lookup(table, k) ==
    LET hits == {i \in 1..Len(table) : table[i][1] = k}
    IN IF hits = {} THEN 0 ELSE CHOOSE i \in hits : \A j \in hits : i <= j

KEYWORDS == <<
    <<<<"a", "b", "s", "t", "r", "a", "c", "t">>, "ABSTRACT">>,
    <<<<"a", "s", "s", "e", "r", "t">>, "ASSERT">>,
    <<<<"b", "o", "o", "l", "e", "a", "n">>, "BOOLEAN">>,
    <<<<"b", "r", "e", "a", "k">>, "BREAK">>,
    <<<<"b", "y", "t", "e">>, "BYTE">>,
    <<<<"c", "a", "s", "e">>, "CASE">>,
    <<<<"c", "a", "t", "c", "h">>, "CATCH">>,
    <<<<"c", "h", "a", "r">>, "CHAR">>,
    <<<<"c", "l", "a", "s", "s">>, "CLASS">>,
    <<<<"c", "o", "n", "t", "i", "n", "u", "e">>, "CONTINUE">>,
    <<<<"d", "e", "f", "a", "u", "l", "t">>, "DEFAULT">>,
    <<<<"d", "o">>, "DO">>,
    <<<<"e", "l", "s", "e">>, "ELSE">>,
    <<<<"e", "n", "u", "m">>, "ENUM">>,
    <<<<"e", "x", "t", "e", "n", "d", "s">>, "EXTENDS">>,
    <<<<"f", "i", "n", "a", "l">>, "FINAL">>,
    <<<<"f", "i", "n", "a", "l", "l", "y">>, "FINALLY">>,
    <<<<"f", "l", "o", "a", "t">>, "FLOAT">>,
    <<<<"d", "o", "u", "b", "l", "e">>, "DOUBLE">>,
    <<<<"f", "o", "r">>, "FOR">>,
    <<<<"i", "f">>, "IF">>,
    <<<<"i", "m", "p", "l", "e", "m", "e", "n", "t", "s">>, "IMPLEMENTS">>,
    <<<<"i", "m", "p", "o", "r", "t">>, "IMPORT">>,
    <<<<"i", "n", "s", "t", "a", "n", "c", "e", "o", "f">>, "INSTANCEOF">>,
    <<<<"i", "n", "t">>, "INT">>,
    <<<<"i", "n", "t", "e", "r", "f", "a", "c", "e">>, "INTERFACE">>,
    <<<<"l", "o", "n", "g">>, "LONG">>,
    <<<<"n", "a", "t", "i", "v", "e">>, "NATIVE">>,
    <<<<"n", "e", "w">>, "NEW">>,
    <<<<"p", "a", "c", "k", "a", "g", "e">>, "PACKAGE">>,
    <<<<"p", "r", "i", "v", "a", "t", "e">>, "PRIVATE">>,
    <<<<"p", "r", "o", "t", "e", "c", "t", "e", "d">>, "PROTECTED">>,
    <<<<"p", "u", "b", "l", "i", "c">>, "PUBLIC">>,
    <<<<"r", "e", "t", "u", "r", "n">>, "RETURN">>,
    <<<<"s", "h", "o", "r", "t">>, "SHORT">>,
    <<<<"s", "t", "a", "t", "i", "c">>, "STATIC">>,
    <<<<"s", "t", "r", "i", "c", "t", "f", "p">>, "STRICTFP">>,
    <<<<"s", "u", "p", "e", "r">>, "SUPER">>,
    <<<<"s", "w", "i", "t", "c", "h">>, "SWITCH">>,
    <<<<"s", "y", "n", "c", "h", "r", "o", "n", "i", "z", "e", "d">>, "SYNCHRONIZED">>,
    <<<<"t", "h", "i", "s">>, "THIS">>,
    <<<<"t", "h", "r", "o", "w">>, "THROW">>,
    <<<<"t", "h", "r", "o", "w", "s">>, "THROWS">>,
    <<<<"t", "r", "a", "n", "s", "i", "e", "n", "t">>, "TRANSIENT">>,
    <<<<"t", "r", "y">>, "TRY">>,
    <<<<"v", "o", "i", "d">>, "VOID">>,
    <<<<"v", "o", "l", "a", "t", "i", "l", "e">>, "VOLATILE">>,
    <<<<"w", "h", "i", "l", "e">>, "WHILE">>,
    <<<<"t", "r", "u", "e">>, "TRUE">>,
    <<<<"f", "a", "l", "s", "e">>, "FALSE">>,
    <<<<"n", "u", "l", "l">>, "NULL">>
>>

\* SYMBOLS_MAP in the order of sym_keys: longer symbols first
SYMBOLS_MAP == <<
    <<<<">", ">", ">", "=">>, "URSHIFT_ASSIGN">>,
    <<<<">", ">", "=">>, "RSHIFT_ASSIGN">>,
    <<<<"<", "<", "=">>, "LSHIFT_ASSIGN">>,
    <<<<">", ">", ">">>, "URSHIFT">>,
    <<<<".", ".", ".">>, "ELLIPSIS">>,
    <<<<">", ">">>, "RSHIFT">>,
    <<<<"<", "<">>, "LSHIFT">>,
    <<<<"=", "=">>, "EQUAL">>,
    <<<<"<", "=">>, "LE">>,
    <<<<">", "=">>, "GE">>,
    <<<<"!", "=">>, "NOTEQUAL">>,
    <<<<"&", "&">>, "AND">>,
    <<<<"|", "|">>, "OR">>,
    <<<<"+", "+">>, "INC">>,
    <<<<"-", "-">>, "DEC">>,
    <<<<"+", "=">>, "ADD_ASSIGN">>,
    <<<<"-", "=">>, "SUB_ASSIGN">>,
    <<<<"*", "=">>, "MUL_ASSIGN">>,
    <<<<"/", "=">>, "DIV_ASSIGN">>,
    <<<<"&", "=">>, "AND_ASSIGN">>,
    <<<<"|", "=">>, "OR_ASSIGN">>,
    <<<<"^", "=">>, "XOR_ASSIGN">>,
    <<<<"%", "=">>, "MOD_ASSIGN">>,
    <<<<"-", ">">>, "ARROW">>,
    <<<<":", ":">>, "COLONCOLON">>,
    <<<<"{">>, "LBRACE">>,
    <<<<"}">>, "RBRACE">>,
    <<<<"(">>, "LPAREN">>,
    <<<<")">>, "RPAREN">>,
    <<<<"[">>, "LBRACK">>,
    <<<<"]">>, "RBRACK">>,
    <<<<";">>, "SEMI">>,
    <<<<",">>, "COMMA">>,
    <<<<".">>, "DOT">>,
    <<<<"=">>, "ASSIGN">>,
    <<<<">">>, "GT">>,
    <<<<"<">>, "LT">>,
    <<<<"!">>, "BANG">>,
    <<<<"~">>, "TILDE">>,
    <<<<"?">>, "QUESTION">>,
    <<<<":">>, "COLON">>,
    <<<<"+">>, "ADD">>,
    <<<<"-">>, "SUB">>,
    <<<<"*">>, "MUL">>,
    <<<<"/">>, "DIV">>,
    <<<<"&">>, "BITAND">>,
    <<<<"|">>, "BITOR">>,
    <<<<"^">>, "CARET">>,
    <<<<"%">>, "MOD">>,
    <<<<"@">>, "AT">>
>>

WhitespaceChars == {" ", "\t", "\r", "\n"}
DigitChars == {Digits[i] : i \in 1..10}
IdStartChars == {Upper[i] : i \in 1..26} \cup {Lower[i] : i \in 1..26} \cup {"_", "$"}
IdChars == IdStartChars \cup DigitChars

\* Each pattern is the length of its match at the start of text; 0 is no
\* match (no pattern of the lexer matches the empty text).

\* [ \t\r\n]+
_whitespace_re(text) == SpanIn(WhitespaceChars, text)

\* the length of s up to the end of the first "*/" in it, or -1
RECURSIVE CommentClose(_)
CommentClose(s) ==
    IF Len(s) < 2 THEN -1
    ELSE IF s[1] = "*" /\ s[2] = "/" THEN 2
    ELSE LET r == CommentClose(Tail(s)) IN IF r < 0 THEN -1 ELSE 1 + r

\* //[^\n]*|/\*[\s\S]*?\*/
_comment_re(text) ==
    IF IsPrefix(<<"/", "/">>, text) THEN 2 + SpanNotIn({"\n"}, Drop(text, 2))
    ELSE IF IsPrefix(<<"/", "*">>, text)
         THEN LET r == CommentClose(Drop(text, 2)) IN IF r < 0 THEN 0 ELSE 2 + r
    ELSE 0

\* (?:\\.|[^"\\])*" : the length of s up to its closing quote, or -1
RECURSIVE StringBody(_)
StringBody(s) ==
    IF s = <<>> THEN -1
    ELSE IF Head(s) = "\"" THEN 1
    ELSE IF Head(s) = "\\"
         THEN IF Len(s) >= 2 /\ s[2] # "\n"
              THEN LET r == StringBody(Drop(s, 2)) IN IF r < 0 THEN -1 ELSE 2 + r
              ELSE -1
    ELSE LET r == StringBody(Tail(s)) IN IF r < 0 THEN -1 ELSE 1 + r

\* "(?:\\.|[^"\\])*"
_string_re(text) ==
    IF text # <<>> /\ Head(text) = "\""
    THEN LET r == StringBody(Tail(text)) IN IF r < 0 THEN 0 ELSE 1 + r
    ELSE 0

\* '(?:\\.|[^'\\])'
_char_re(text) ==
    IF Len(text) >= 3 /\ text[1] = "'"
    THEN IF text[2] = "\\"
         THEN IF Len(text) >= 4 /\ text[3] # "\n" /\ text[4] = "'" THEN 4 ELSE 0
         ELSE IF text[2] # "'" /\ text[3] = "'" THEN 3 ELSE 0
    ELSE 0

\* (?:\d+(?:\.\d+)?|\.\d+)(?:[eE][+-]?\d+)?[fFdDlL]?
_number_re(text) ==
    LET whole == SpanIn(DigitChars, text)
        frac(k) == IF Len(text) > k /\ text[k + 1] = "."
                   THEN LET d == SpanIn(DigitChars, Drop(text, k + 1))
                        IN IF d > 0 THEN 1 + d ELSE 0
                   ELSE 0
        mantissa == IF whole > 0 THEN whole + frac(whole) ELSE frac(0)
        rest == Drop(text, mantissa)
        sign == IF Len(rest) >= 2 /\ rest[2] \in {"+", "-"} THEN 1 ELSE 0
        expo == IF rest # <<>> /\ rest[1] \in {"e", "E"}
                THEN LET d == SpanIn(DigitChars, Drop(rest, 1 + sign))
                     IN IF d > 0 THEN 1 + sign + d ELSE 0
                ELSE 0
        tail == Drop(text, mantissa + expo)
        suffix == IF tail # <<>> /\ tail[1] \in {"f", "F", "d", "D", "l", "L"} THEN 1 ELSE 0
    IN IF mantissa = 0 THEN 0 ELSE mantissa + expo + suffix

\* [A-Za-z_$][A-Za-z0-9_$]*
_identifier_re(text) ==
    IF text # <<>> /\ Head(text) \in IdStartChars THEN 1 + SpanIn(IdChars, Tail(text)) ELSE 0

\* the alternation of the symbols, longest first: the first one that matches
_symbol_re(text) ==
    LET hits == {i \in 1..Len(SYMBOLS_MAP) : IsPrefix(SYMBOLS_MAP[i][1], text)}
    IN IF hits = {} THEN 0
       ELSE Len(SYMBOLS_MAP[CHOOSE i \in hits : \A j \in hits : i <= j][1])

\* a variant that does not move past an unrecognized "#"
_advance_position_unknown(pos, text_segment) ==
    IF text_segment = <<"#">> THEN pos ELSE pos + Len(text_segment)

\* _advance_position: the offset after the consumed segment
_advance_position(pos, text_segment) == pos + Len(text_segment)

\* Lexer.emitEOF: the terminal token
emitEOF == Token("EOF", <<"<", "E", "O", "F", ">">>)

\* the token the first matching rule of nextToken makes of text
ScanToken(text) ==
    LET value(n) == SubSeq(text, 1, n)
        kw == Lookup(KEYWORDS, value(_identifier_re(text)))
        sy == Lookup(SYMBOLS_MAP, value(_symbol_re(text)))
    IN IF _string_re(text) > 0 THEN Token("STRING", value(_string_re(text)))
       ELSE IF _char_re(text) > 0 THEN Token("CHAR", value(_char_re(text)))
       ELSE IF _number_re(text) > 0 THEN Token("NUMBER", value(_number_re(text)))
       ELSE IF _identifier_re(text) > 0
            THEN Token(IF kw = 0 THEN "IDENTIFIER" ELSE KEYWORDS[kw][2],
                       value(_identifier_re(text)))
       ELSE IF _symbol_re(text) > 0 THEN Token(SYMBOLS_MAP[sy][2], value(_symbol_re(text)))
       ELSE Token("UNKNOWN", value(1))

\* nextToken on _code from offset pos: the token returned and the offset
\* the call leaves in _pos
RECURSIVE nextToken(_, _)
nextToken(src, pos) ==
    LET text == Drop(src, pos)
    IN IF pos >= Len(src) THEN [tok |-> emitEOF, pos |-> pos]
       ELSE IF _whitespace_re(text) > 0
            THEN nextToken(src, _advance_position(pos, SubSeq(text, 1, _whitespace_re(text))))
       ELSE IF _comment_re(text) > 0
            THEN nextToken(src, _advance_position(pos, SubSeq(text, 1, _comment_re(text))))
       ELSE [tok |-> ScanToken(text),
             pos |-> _advance_position(pos, ScanToken(text).text)]

\* TokenStream._fill_tokens: the buffer of a lexer at offset pos
RECURSIVE _fill_tokens(_, _)
_fill_tokens(src, pos) ==
    LET r == nextToken(src, pos)
    IN IF r.tok.type = "EOF" THEN <<r.tok>> ELSE <<r.tok>> \o _fill_tokens(src, r.pos)

-----------------------------------------------------------------------------
(* The lexer's specification: TokenStream(lexer) fills its buffer from a   *)
(* lexer over any text of at most MaxCodeLen characters, one nextToken     *)
(* call per step.                                                          *)

MaxCodeLen == 4

LexAlphabet == {" ", "\n", "/", "*", "\"", "\\", "a", "1", ">", "#"}

Texts(n) == UNION {[1..k -> LexAlphabet] : k \in 0..n}

LexInit ==
    /\ code \in Texts(MaxCodeLen)
    /\ _pos = 0
    /\ tokens = <<>>
    /\ filled = FALSE
    /\ OptIdle /\ ParseIdle /\ TransIdle /\ MainIdle /\ SemIdle /\ StreamIdle /\ OwnIdle /\ WalkIdle

\* one iteration of the loop of _fill_tokens
FillStep ==
    /\ ~filled
    /\ LET r == nextToken(code, _pos)
       IN /\ tokens' = Append(tokens, r.tok)
          /\ _pos' = r.pos
          /\ filled' = (r.tok.type = "EOF")
    /\ UNCHANGED code
    /\ UNCHANGED notLexVars

LexNext == FillStep

SpecLex == LexInit /\ [][LexNext]_vars

-----------------------------------------------------------------------------
(* C4 *)

NonEOF(toks) == {i \in 1..Len(toks) : toks[i].type # "EOF"}

\* the buffer never holds more non-EOF tokens than the text has characters,
\* EOF is buffered exactly once, last, and exactly when the fill has ended
C4_Buffer ==
    /\ Cardinality(NonEOF(tokens)) <= Len(code)
    /\ _pos <= Len(code)
    /\ filled <=> (tokens # <<>> /\ tokens[Len(tokens)].type = "EOF")
    /\ \A i \in 1..Len(tokens) : tokens[i].type = "EOF" => i = Len(tokens)

\* a nextToken call made before the end of the text leaves _pos larger, and
\* a call made at the end ends the fill
C4_Call ==
    /\ _pos < Len(code) => _pos' > _pos
    /\ _pos >= Len(code) => filled'
    /\ Len(tokens') = Len(tokens) + 1

\* C4: lexer progress.  Every nextToken call made with _pos before the end
\* of the text strictly increases _pos, so a text of n characters yields at
\* most n non-EOF tokens followed by exactly one EOF, and _fill_tokens ends.
C4_LexerProgress == [][C4_Call]_vars /\ []C4_Buffer

\* a fill that has ended after skipping part of the text and buffering an
\* unrecognized character, a string literal and EOF
C4_Witness ==
    /\ filled
    /\ Len(tokens) = 3
    /\ tokens[1].type = "UNKNOWN"
    /\ tokens[2].type = "STRING"
    /\ Len(code) > Len(tokens[1].text) + Len(tokens[2].text)

-----------------------------------------------------------------------------
(* SimpleJavaParser over the buffer toks of a TokenStream.  pos is         *)
(* TokenStream.pos, so that self.current is LT(toks, pos, 1).  A parsing   *)
(* method is an operator from (toks, pos) to a record [st, pos, val]: st   *)
(* is "ok" when the method returns val and leaves the stream at pos,       *)
(* "SyntaxError" when it raises, and "diverges" when it enters a loop      *)
(* that it never leaves.                                                   *)

MODIFIERS == {"PUBLIC", "PRIVATE", "PROTECTED", "STATIC", "FINAL", "ABSTRACT"}
TYPE_KEYWORDS == {"INT", "FLOAT", "DOUBLE", "BOOLEAN", "CHAR", "VOID", "STRING"}
IGNORED == {"COMMENT", "LINE_COMMENT", "WS"}

PRECEDENCE ==
    [op \in {"MUL", "DIV", "MOD"} |-> 60] @@ [op \in {"ADD", "SUB"} |-> 50] @@
    [op \in {"GT", "LT", "GE", "LE"} |-> 40] @@ [op \in {"EQUAL", "NOTEQUAL"} |-> 30] @@
    [op \in {"AND"} |-> 20] @@ [op \in {"OR"} |-> 10] @@
    [op \in {"BITAND", "BITOR", "CARET", "LSHIFT", "RSHIFT", "URSHIFT"} |-> 5]

Ok(pos, val) == [st |-> "ok", pos |-> pos, val |-> val]
Raise(pos) == [st |-> "SyntaxError", pos |-> pos, val |-> <<>>]
Diverge(pos) == [st |-> "diverges", pos |-> pos, val |-> <<>>]

\* TokenStream.LT and TokenStream.consume
LT(toks, pos, k) ==
    LET index == pos + k - 1
    IN IF 0 <= index /\ index < Len(toks) THEN toks[index + 1] ELSE toks[Len(toks)]

ConsumeUnchecked(toks, pos) == pos + 1
consume(toks, pos) == IF pos < Len(toks) - 1 THEN pos + 1 ELSE pos

RECURSIVE _skip_ignored(_, _)
_skip_ignored(toks, pos) ==
    IF LT(toks, pos, 1).type \in IGNORED /\ consume(toks, pos) # pos
    THEN _skip_ignored(toks, consume(toks, pos))
    ELSE pos

advance(toks, pos) == _skip_ignored(toks, consume(toks, pos))

match(toks, pos, expected_type) ==
    IF LT(toks, pos, 1).type # expected_type THEN Raise(pos)
    ELSE Ok(advance(toks, pos), <<>>)

\* accept, as the position it leaves: pos itself when it returns False
accept(toks, pos, expected_type) ==
    IF LT(toks, pos, 1).type = expected_type THEN advance(toks, pos) ELSE pos

Member(name, base) == ASTNode("Member", name, <<base>>)
Unknown(tok) == ASTNode("Unknown", <<tok.type, tok.text>>, <<>>)

\* the outcome r of a parsing step, and then K on it when the step returned
Then(r, K(_)) == IF r.st # "ok" THEN r ELSE K(r)

\* K on the value v
With(v, K(_)) == K(v)

RECURSIVE parse_expression(_, _, _)
RECURSIVE ExprLoop(_, _, _, _)
RECURSIVE parse_primary(_, _)
RECURSIVE PrimaryLoop(_, _, _)
RECURSIVE ArgLoop(_, _, _)

\* a variant of the loop that parses the right operand at the operator's
\* own level, which groups equal levels to the right
ExprLoopRightAssoc(toks, pos, left, min_prec) ==
    LET cur == LT(toks, pos, 1)
        prec == IF cur.type \in DOMAIN PRECEDENCE THEN PRECEDENCE[cur.type] ELSE -1
    IN IF cur.type = "QUESTION"
       THEN Then(parse_expression(toks, advance(toks, pos), 0), LAMBDA t :
            Then(match(toks, t.pos, "COLON"), LAMBDA m :
            Then(parse_expression(toks, m.pos, min_prec), LAMBDA f :
            ExprLoop(toks, f.pos, Ternary(left, t.val, f.val), min_prec))))
       ELSE IF prec < min_prec THEN Ok(pos, left)
       ELSE Then(parse_expression(toks, advance(toks, pos), prec), LAMBDA r :
            ExprLoop(toks, r.pos, BinaryOp(cur.type, left, r.val), min_prec))

\* the while loop of parse_expression, entered with left parsed
ExprLoop(toks, pos, left, min_prec) ==
    LET cur == LT(toks, pos, 1)
        prec == IF cur.type \in DOMAIN PRECEDENCE THEN PRECEDENCE[cur.type] ELSE -1
    IN IF cur.type = "QUESTION"
       THEN Then(parse_expression(toks, advance(toks, pos), 0), LAMBDA t :
            Then(match(toks, t.pos, "COLON"), LAMBDA m :
            Then(parse_expression(toks, m.pos, min_prec), LAMBDA f :
            ExprLoop(toks, f.pos, Ternary(left, t.val, f.val), min_prec))))
       ELSE IF prec < min_prec THEN Ok(pos, left)
       ELSE Then(parse_expression(toks, advance(toks, pos), prec + 1), LAMBDA r :
            ExprLoop(toks, r.pos, BinaryOp(cur.type, left, r.val), min_prec))

parse_expression(toks, pos, min_prec) ==
    Then(parse_primary(toks, pos), LAMBDA left :
    ExprLoop(toks, left.pos, left.val, min_prec))

\* the comma loop over the arguments of a call
ArgLoop(toks, pos, args) ==
    IF LT(toks, pos, 1).type = "COMMA"
    THEN Then(parse_expression(toks, advance(toks, pos), 0), LAMBDA a :
         ArgLoop(toks, a.pos, Append(args, a.val)))
    ELSE Ok(pos, args)

\* the arguments of a call, from the token after "("
Arguments(toks, pos) ==
    IF LT(toks, pos, 1).type = "RPAREN" THEN Ok(pos, <<>>)
    ELSE Then(parse_expression(toks, pos, 0), LAMBDA a : ArgLoop(toks, a.pos, <<a.val>>))

\* the loop of parse_primary over member accesses, calls and postfix operators
PrimaryLoop(toks, pos, base) ==
    LET cur == LT(toks, pos, 1)
        next == advance(toks, pos)
    IN IF cur.type = "DOT"
       THEN IF LT(toks, next, 1).type = "IDENTIFIER"
            THEN PrimaryLoop(toks, advance(toks, next), Member(LT(toks, next, 1).text, base))
            ELSE Ok(next, base)
       ELSE IF cur.type = "LPAREN"
       THEN Then(Arguments(toks, next), LAMBDA args :
            Then(match(toks, args.pos, "RPAREN"), LAMBDA m :
            PrimaryLoop(toks, m.pos, Call(base, args.val))))
       ELSE IF cur.type \in {"INC", "DEC"}
       THEN PrimaryLoop(toks, next, PostfixOp(cur.type, base))
       ELSE Ok(pos, base)

parse_primary(toks, pos) ==
    LET cur == LT(toks, pos, 1)
        next == advance(toks, pos)
    IN IF cur.type \in {"INC", "DEC", "BANG", "ADD", "SUB", "TILDE"}
       THEN Then(parse_primary(toks, next), LAMBDA operand :
            Ok(operand.pos, PrefixOp(cur.type, operand.val)))
       ELSE IF cur.type = "LPAREN"
       THEN Then(parse_expression(toks, next, 0), LAMBDA expr :
            Then(match(toks, expr.pos, "RPAREN"), LAMBDA m : Ok(m.pos, expr.val)))
       ELSE IF cur.type \in {"NUMBER", "STRING", "CHAR", "TRUE", "FALSE", "NULL"}
       THEN Ok(next, Literal(cur.text))
       ELSE IF cur.type \in {"IDENTIFIER", "THIS", "SUPER"}
       THEN PrimaryLoop(toks, next,
                Identifier(IF cur.type \in {"THIS", "SUPER"} THEN ToLower(cur.text) ELSE cur.text))
       ELSE Ok(next, Unknown(cur))

-----------------------------------------------------------------------------
(* SimpleJavaParser: declarations *)

NoneText == <<"N", "o", "n", "e">>

\* sep.join(ss)
RECURSIVE Join(_, _)
Join(ss, sep) ==
    IF ss = <<>> THEN <<>>
    ELSE IF Len(ss) = 1 THEN ss[1]
    ELSE ss[1] \o sep \o Join(Tail(ss), sep)

\* the type of a keyword token as text: the keyword in upper case
TypeText(tok) ==
    [i \in 1..Len(tok.text) |->
        IF \E k \in 1..26 : Lower[k] = tok.text[i]
        THEN Upper[CHOOSE k \in 1..26 : Lower[k] = tok.text[i]]
        ELSE tok.text[i]]

Modifiers(mods) == ASTNode("Modifiers", Join(mods, <<",">>), <<>>)
FieldDecl(type_tok, name, children) == ASTNode("FieldDecl", type_tok \o <<" ">> \o name, children)
Param(p_type, p_name) == ASTNode("Param", p_type \o <<" ">> \o p_name, <<>>)

\* [Modifiers] when there are modifiers
ModifiersChild(mods) == IF mods # <<>> THEN <<Modifiers(mods)>> ELSE <<>>

\* while self.current.type in self.MODIFIERS: modifiers.append(...); advance()
RECURSIVE ModifierLoop(_, _, _)
ModifierLoop(toks, pos, mods) ==
    IF LT(toks, pos, 1).type \in MODIFIERS
    THEN ModifierLoop(toks, advance(toks, pos), Append(mods, TypeText(LT(toks, pos, 1))))
    ELSE [pos |-> pos, mods |-> mods]

\* the loop of _maybe_generic_suffix
RECURSIVE GenericLoop(_, _, _, _)
GenericLoop(toks, pos, depth, out) ==
    LET t == LT(toks, pos, 1)
        d == IF t.type = "LT" THEN depth + 1 ELSE IF t.type = "GT" THEN depth - 1 ELSE depth
        o == out \o (IF t.type = "LT" THEN <<"<">> ELSE IF t.type = "GT" THEN <<">">> ELSE t.text)
    IN IF t.type = "EOF" THEN [pos |-> pos, text |-> out]
       ELSE IF d = 0 THEN [pos |-> advance(toks, pos), text |-> o]
       ELSE GenericLoop(toks, advance(toks, pos), d, o)

_maybe_generic_suffix(toks, pos, base_type) ==
    IF LT(toks, pos, 1).type # "LT" THEN [pos |-> pos, text |-> base_type]
    ELSE With(GenericLoop(toks, pos, 0, base_type), LAMBDA g :
         [pos |-> g.pos, text |-> Replace(g.text, " ", <<>>)])

\* while LBRACK: advance(); if RBRACK: advance(), type_tok += "[]" else break
RECURSIVE BracketLoop(_, _, _)
BracketLoop(toks, pos, type_tok) ==
    IF LT(toks, pos, 1).type # "LBRACK" THEN [pos |-> pos, text |-> type_tok]
    ELSE IF LT(toks, advance(toks, pos), 1).type = "RBRACK"
    THEN BracketLoop(toks, advance(toks, advance(toks, pos)), type_tok \o <<"[", "]">>)
    ELSE [pos |-> advance(toks, pos), text |-> type_tok]

\* while LBRACK: advance(); if RBRACK: type += "[]", advance()
RECURSIVE BracketLoopNoBreak(_, _, _)
BracketLoopNoBreak(toks, pos, type_tok) ==
    IF LT(toks, pos, 1).type # "LBRACK" THEN [pos |-> pos, text |-> type_tok]
    ELSE IF LT(toks, advance(toks, pos), 1).type = "RBRACK"
    THEN BracketLoopNoBreak(toks, advance(toks, advance(toks, pos)), type_tok \o <<"[", "]">>)
    ELSE BracketLoopNoBreak(toks, advance(toks, pos), type_tok)

\* the type that opens a field or a local declaration
TypePrefix(toks, pos) ==
    IF LT(toks, pos, 1).type \in TYPE_KEYWORDS \cup {"IDENTIFIER"}
    THEN With(_maybe_generic_suffix(toks, advance(toks, pos), LT(toks, pos, 1).text), LAMBDA g :
         With(BracketLoop(toks, g.pos, g.text), LAMBDA b :
         [typed |-> TRUE, pos |-> b.pos, text |-> b.text]))
    ELSE [typed |-> FALSE, pos |-> pos, text |-> NoneText]

\* while self.current.type != "RBRACE": elems.append(parse_expression());
\* if COMMA: advance().  An iteration that ends where it began is repeated
\* for ever.
RECURSIVE ArrayElems(_, _, _)
ArrayElems(toks, pos, elems) ==
    IF LT(toks, pos, 1).type = "RBRACE" THEN Ok(pos, elems)
    ELSE Then(parse_expression(toks, pos, 0), LAMBDA e :
         With(accept(toks, e.pos, "COMMA"), LAMBDA p :
         IF p = pos THEN Diverge(pos) ELSE ArrayElems(toks, p, Append(elems, e.val))))

\* { elems } with the opening brace at pos
ArrayInit(toks, pos) ==
    Then(ArrayElems(toks, advance(toks, pos), <<>>), LAMBDA elems :
    Then(match(toks, elems.pos, "RBRACE"), LAMBDA m :
    Ok(m.pos, ASTNode("ArrayInit", "None", elems.val))))

\* if not RBRACK: parse_expression()
DimExpr(toks, pos) ==
    IF LT(toks, pos, 1).type # "RBRACK" THEN parse_expression(toks, pos, 0) ELSE Ok(pos, <<>>)

\* while LBRACK: advance(); if not RBRACK: parse_expression(); match(RBRACK)
RECURSIVE NewDims(_, _)
NewDims(toks, pos) ==
    IF LT(toks, pos, 1).type # "LBRACK" THEN Ok(pos, <<>>)
    ELSE Then(DimExpr(toks, advance(toks, pos)), LAMBDA e :
         Then(match(toks, e.pos, "RBRACK"), LAMBDA m : NewDims(toks, m.pos)))

\* the element type after "new", as the position it leaves
NewType(toks, pos) ==
    IF LT(toks, pos, 1).type \in TYPE_KEYWORDS \cup {"IDENTIFIER"}
    THEN _maybe_generic_suffix(toks, advance(toks, pos), LT(toks, pos, 1).text).pos
    ELSE pos

\* the initializer after "=": new T[..]{..}, {..} or an expression
Initializer(toks, pos) ==
    IF LT(toks, pos, 1).type = "NEW"
    THEN Then(NewDims(toks, NewType(toks, advance(toks, pos))), LAMBDA dims :
         IF LT(toks, dims.pos, 1).type = "LBRACE" THEN ArrayInit(toks, dims.pos)
         ELSE Ok(dims.pos, ASTNode("Unknown", <<"new-array", <<>>>>, <<>>)))
    ELSE IF LT(toks, pos, 1).type = "LBRACE" THEN ArrayInit(toks, pos)
    ELSE parse_expression(toks, pos, 0)

\* init = None, or the initializer when "=" is accepted: [Init] or nothing
InitChild(toks, pos) ==
    IF LT(toks, pos, 1).type = "ASSIGN"
    THEN Then(Initializer(toks, advance(toks, pos)), LAMBDA init :
         Ok(init.pos, <<ASTNode("Init", "None", <<init.val>>)>>))
    ELSE Ok(pos, <<>>)

\* the loop over the declarators of a field or local declaration
RECURSIVE Declarators(_, _, _, _, _)
Declarators(toks, pos, type_tok, mods, decls) ==
    IF LT(toks, pos, 1).type # "IDENTIFIER" THEN Ok(pos, decls)
    ELSE Then(InitChild(toks, advance(toks, pos)), LAMBDA init :
         With(Append(decls, FieldDecl(type_tok, LT(toks, pos, 1).text,
                                      ModifiersChild(mods) \o init.val)), LAMBDA ds :
         IF LT(toks, init.pos, 1).type = "COMMA"
         THEN Declarators(toks, advance(toks, init.pos), type_tok, mods, ds)
         ELSE Ok(init.pos, ds)))

\* decls[0] if len(decls) == 1 else ASTNode("Block", children=decls)
OneOrBlock(decls) == IF Len(decls) = 1 THEN decls[1] ELSE ASTNode("Block", "None", decls)

parse_field_declaration(toks, pos) ==
    With(ModifierLoop(toks, pos, <<>>), LAMBDA m :
    With(TypePrefix(toks, m.pos), LAMBDA tp :
    IF ~tp.typed
    THEN Ok(advance(toks, tp.pos), FieldDecl(NoneText, <<"v", "a", "r">>, <<>>))
    ELSE Then(Declarators(toks, tp.pos, tp.text, m.mods, <<>>), LAMBDA d :
         Ok(accept(toks, d.pos, "SEMI"), OneOrBlock(d.val)))))

parse_local_variable_declaration_no_semi(toks, pos) ==
    With(TypePrefix(toks, ModifierLoop(toks, pos, <<>>).pos), LAMBDA tp :
    IF ~tp.typed THEN Ok(tp.pos, FieldDecl(NoneText, <<"v", "a", "r">>, <<>>))
    ELSE Then(Declarators(toks, tp.pos, tp.text, <<>>, <<>>), LAMBDA d :
         Ok(d.pos, OneOrBlock(d.val))))

UnknownText == <<"<", "u", "n", "k", "n", "o", "w", "n", ">">>

\* the type of a parameter and the brackets after it
ParamType(toks, pos) ==
    IF LT(toks, pos, 1).type \in TYPE_KEYWORDS \cup {"IDENTIFIER"}
    THEN BracketLoopNoBreak(toks, advance(toks, pos), LT(toks, pos, 1).text)
    ELSE [pos |-> advance(toks, pos), text |-> UnknownText]

\* the optional name after a type: the position it leaves and the name
OptName(toks, pos) ==
    IF LT(toks, pos, 1).type = "IDENTIFIER"
    THEN [pos |-> advance(toks, pos), text |-> LT(toks, pos, 1).text]
    ELSE [pos |-> pos, text |-> NoneText]

\* the loop of parse_parameter_list
RECURSIVE ParamLoop(_, _, _)
ParamLoop(toks, pos, params) ==
    IF LT(toks, pos, 1).type \in {"RPAREN", "EOF"} THEN Ok(pos, params)
    ELSE IF LT(toks, pos, 1).type \in MODIFIERS THEN ParamLoop(toks, advance(toks, pos), params)
    ELSE With(ParamType(toks, pos), LAMBDA b :
         With(OptName(toks, b.pos), LAMBDA n :
         IF LT(toks, n.pos, 1).type = "COMMA"
         THEN ParamLoop(toks, advance(toks, n.pos), Append(params, Param(b.text, n.text)))
         ELSE Ok(n.pos, Append(params, Param(b.text, n.text)))))

parse_parameter_list(toks, pos) == ParamLoop(toks, pos, <<>>)

-----------------------------------------------------------------------------
(* SimpleJavaParser: blocks and statements *)

RECURSIVE parse_statement(_, _)
RECURSIVE parse_block(_, _)
RECURSIVE BlockLoop(_, _, _)
RECURSIVE parse_if_statement(_, _)
RECURSIVE parse_try_statement(_, _)
RECURSIVE CatchLoop(_, _, _)
RECURSIVE parse_while_statement(_, _)
RECURSIVE parse_do_while_statement(_, _)
RECURSIVE parse_for_statement(_, _)
RECURSIVE parse_switch_statement(_, _)
RECURSIVE SwitchLoop(_, _, _)
RECURSIVE ArmLoop(_, _, _)

\* the scan of _looks_like_local_decl_start over <...> from LT(i): the index
\* after the closing ">", or -1 when the scan runs past the buffer, where
\* LT answers EOF for every index and the depth never changes again
RECURSIVE GenericScan(_, _, _, _)
GenericScan(toks, pos, i, depth) ==
    LET tok == LT(toks, pos, i)
        d == IF tok.type = "LT" THEN depth + 1
             ELSE IF tok.type = "GT" THEN depth - 1 ELSE depth
    IN IF d = 0 THEN i + 1
       ELSE IF pos + i - 1 >= Len(toks) - 1 THEN -1
       ELSE GenericScan(toks, pos, i + 1, d)

\* while peek_type(i) == "LBRACK" and peek_type(i + 1) == "RBRACK": i += 2
RECURSIVE ArrayScan(_, _, _)
ArrayScan(toks, pos, i) ==
    IF LT(toks, pos, i).type = "LBRACK" /\ LT(toks, pos, i + 1).type = "RBRACK"
    THEN ArrayScan(toks, pos, i + 2)
    ELSE i

\* "yes", "no", or "diverges" when the scan never returns
_looks_like_local_decl_start(toks, pos) ==
    IF LT(toks, pos, 1).type # "IDENTIFIER" THEN "no"
    ELSE With(IF LT(toks, pos, 2).type = "LT" THEN GenericScan(toks, pos, 2, 0) ELSE 2,
              LAMBDA i :
         IF i < 0 THEN "diverges"
         ELSE IF LT(toks, pos, ArrayScan(toks, pos, i)).type = "IDENTIFIER" THEN "yes"
         ELSE "no")

compound ==
    [t \in {"ADD_ASSIGN"} |-> "ADD"] @@ [t \in {"SUB_ASSIGN"} |-> "SUB"] @@
    [t \in {"MUL_ASSIGN"} |-> "MUL"] @@ [t \in {"DIV_ASSIGN"} |-> "DIV"] @@
    [t \in {"MOD_ASSIGN"} |-> "MOD"] @@ [t \in {"AND_ASSIGN"} |-> "BITAND"] @@
    [t \in {"OR_ASSIGN"} |-> "BITOR"] @@ [t \in {"XOR_ASSIGN"} |-> "CARET"] @@
    [t \in {"LSHIFT_ASSIGN"} |-> "LSHIFT"] @@ [t \in {"RSHIFT_ASSIGN"} |-> "RSHIFT"] @@
    [t \in {"URSHIFT_ASSIGN"} |-> "URSHIFT"]

\* parse_statement from the expression on: assignment, compound assignment
\* or expression statement
ExprStatement(toks, pos) ==
    Then(parse_expression(toks, pos, 0), LAMBDA left :
    With(LT(toks, left.pos, 1).type, LAMBDA op :
    IF op = "ASSIGN" \/ op \in DOMAIN compound
    THEN Then(parse_expression(toks, advance(toks, left.pos), 0), LAMBDA right :
         Ok(accept(toks, right.pos, "SEMI"),
            Assign(left.val, IF op = "ASSIGN" THEN right.val
                             ELSE BinaryOp(compound[op], left.val, right.val))))
    ELSE Ok(accept(toks, left.pos, "SEMI"), ExprStmt(left.val))))

\* return, from the token after it
ReturnStatement(toks, pos) ==
    IF LT(toks, pos, 1).type # "SEMI"
    THEN Then(parse_expression(toks, pos, 0), LAMBDA expr :
         Ok(accept(toks, expr.pos, "SEMI"), ASTNode("Return", "None", <<expr.val>>)))
    ELSE Ok(advance(toks, pos), ASTNode("Return", "None", <<>>))

\* a statement that begins with an identifier
IdentifierStatement(toks, pos) ==
    With(_looks_like_local_decl_start(toks, pos), LAMBDA looks :
    IF looks = "diverges" THEN Diverge(pos)
    ELSE IF looks = "yes"
    THEN Then(parse_local_variable_declaration_no_semi(toks, pos), LAMBDA local :
         Ok(accept(toks, local.pos, "SEMI"), local.val))
    ELSE ExprStatement(toks, pos))

parse_statement(toks, pos) ==
    LET cur == LT(toks, pos, 1)
        next == advance(toks, pos)
    IN CASE cur.type = "IF" -> parse_if_statement(toks, pos)
         [] cur.type = "SWITCH" -> parse_switch_statement(toks, pos)
         [] cur.type = "FOR" -> parse_for_statement(toks, pos)
         [] cur.type = "WHILE" -> parse_while_statement(toks, pos)
         [] cur.type = "DO" -> parse_do_while_statement(toks, pos)
         [] cur.type = "TRY" -> parse_try_statement(toks, pos)
         [] cur.type = "BREAK" -> Ok(accept(toks, next, "SEMI"), ASTNode("Break", "None", <<>>))
         [] cur.type = "CONTINUE" ->
                Ok(accept(toks, next, "SEMI"), ASTNode("Continue", "None", <<>>))
         [] cur.type = "RETURN" -> ReturnStatement(toks, next)
         [] cur.type = "LBRACE" ->
                Then(parse_block(toks, pos), LAMBDA block : Ok(block.pos, Block(block.val)))
         [] cur.type \in TYPE_KEYWORDS -> parse_field_declaration(toks, pos)
         [] cur.type = "IDENTIFIER" -> IdentifierStatement(toks, pos)
         [] OTHER -> ExprStatement(toks, pos)

\* while self.current.type not in ("RBRACE", EOF): stmts.append(parse_statement())
BlockLoop(toks, pos, stmts) ==
    IF LT(toks, pos, 1).type = "EOF" THEN Raise(pos)
    ELSE IF LT(toks, pos, 1).type = "RBRACE" THEN Ok(advance(toks, pos), stmts)
    ELSE Then(parse_statement(toks, pos), LAMBDA s :
         BlockLoop(toks, s.pos, Append(stmts, s.val)))

\* the list of statements of { ... }, or the empty list without a brace
parse_block(toks, pos) ==
    IF LT(toks, pos, 1).type = "LBRACE" THEN BlockLoop(toks, advance(toks, pos), <<>>)
    ELSE Ok(pos, <<>>)

\* match(a), match(b): the position after both
Match2(toks, pos, a, b) ==
    Then(match(toks, pos, a), LAMBDA m : match(toks, m.pos, b))

\* ( expression ) and a block, after the keyword kw: K on the expression and
\* on the outcome of the block
Header(toks, pos, kw, K(_, _)) ==
    Then(Match2(toks, pos, kw, "LPAREN"), LAMBDA m :
    Then(parse_expression(toks, m.pos, 0), LAMBDA cond :
    Then(match(toks, cond.pos, "RPAREN"), LAMBDA r :
    Then(parse_block(toks, r.pos), LAMBDA body : K(cond.val, body)))))

\* the statement after else, from the token after it
ElseBranch(toks, pos) ==
    IF LT(toks, pos, 1).type = "IF" THEN parse_if_statement(toks, pos)
    ELSE IF LT(toks, pos, 1).type = "LBRACE"
    THEN Then(parse_block(toks, pos), LAMBDA b : Ok(b.pos, ASTNode("Else", "None", b.val)))
    ELSE Then(parse_statement(toks, pos), LAMBDA s :
         Ok(s.pos, ASTNode("Else", "None", <<s.val>>)))

parse_if_statement(toks, pos) ==
    Header(toks, pos, "IF", LAMBDA cond, then :
        IF LT(toks, then.pos, 1).type # "ELSE"
        THEN Ok(then.pos, ASTNodeV("IfStatement", cond, <<ASTNode("Then", "None", then.val)>>))
        ELSE Then(ElseBranch(toks, advance(toks, then.pos)), LAMBDA else :
             Ok(else.pos, ASTNodeV("IfStatement", cond,
                                   <<ASTNode("Then", "None", then.val), else.val>>))))

\* the exception type of a catch clause
CatchType(toks, pos) ==
    IF LT(toks, pos, 1).type \in TYPE_KEYWORDS \cup {"IDENTIFIER"}
    THEN [pos |-> advance(toks, pos), text |-> LT(toks, pos, 1).text]
    ELSE [pos |-> pos, text |-> NoneText]

\* while self.current.type == "CATCH": ...
CatchLoop(toks, pos, catches) ==
    IF LT(toks, pos, 1).type # "CATCH" THEN Ok(pos, catches)
    ELSE Then(match(toks, advance(toks, pos), "LPAREN"), LAMBDA m1 :
         With(CatchType(toks, m1.pos), LAMBDA t :
         With(OptName(toks, t.pos), LAMBDA n :
         Then(match(toks, n.pos, "RPAREN"), LAMBDA m2 :
         Then(parse_block(toks, m2.pos), LAMBDA block :
         CatchLoop(toks, block.pos,
             Append(catches, ASTNode("Catch", Strip(t.text \o <<" ">> \o n.text),
                                     block.val))))))))

\* [finally_node] when FINALLY is accepted
FinallyChild(toks, pos) ==
    IF LT(toks, pos, 1).type # "FINALLY" THEN Ok(pos, <<>>)
    ELSE Then(parse_block(toks, advance(toks, pos)), LAMBDA b :
         Ok(b.pos, <<ASTNode("Finally", "None", b.val)>>))

parse_try_statement(toks, pos) ==
    Then(match(toks, pos, "TRY"), LAMBDA m :
    Then(parse_block(toks, m.pos), LAMBDA try :
    Then(CatchLoop(toks, try.pos, <<>>), LAMBDA catches :
    Then(FinallyChild(toks, catches.pos), LAMBDA finally :
    Ok(finally.pos, ASTNode("TryStatement", "None",
           <<ASTNode("TryBlock", "None", try.val)>> \o catches.val \o finally.val))))))

parse_while_statement(toks, pos) ==
    Header(toks, pos, "WHILE", LAMBDA cond, body :
        Ok(body.pos, ASTNode("WhileStatement", "None", <<cond, Block(body.val)>>)))

parse_do_while_statement(toks, pos) ==
    Then(match(toks, pos, "DO"), LAMBDA m0 :
    Then(parse_block(toks, m0.pos), LAMBDA body :
    Then(Match2(toks, body.pos, "WHILE", "LPAREN"), LAMBDA m :
    Then(parse_expression(toks, m.pos, 0), LAMBDA cond :
    Then(match(toks, cond.pos, "RPAREN"), LAMBDA r :
    Ok(accept(toks, r.pos, "SEMI"),
       ASTNode("DoWhileStatement", "None", <<cond.val, Block(body.val)>>)))))))

\* the lookahead of parse_for_statement from LT(j): "colon", "stop", or
\* "diverges" when it runs past the buffer, where LT answers EOF for ever
RECURSIVE ForScan(_, _, _)
ForScan(toks, pos, j) ==
    LET t == LT(toks, pos, j)
    IN IF t.type = "COLON" THEN "colon"
       ELSE IF t.type \in {"SEMI", "RPAREN"} THEN "stop"
       ELSE IF pos + j - 1 >= Len(toks) - 1 THEN "diverges"
       ELSE ForScan(toks, pos, j + 1)

\* the type of the variable of a for-each, None without one
ForEachType(toks, pos) ==
    IF LT(toks, pos, 1).type \in TYPE_KEYWORDS \cup {"IDENTIFIER"}
    THEN BracketLoopNoBreak(toks, advance(toks, pos), LT(toks, pos, 1).text)
    ELSE [pos |-> pos, text |-> NoneText]

\* for (T x : collection) body, from the token after "("
ForEach(toks, pos) ==
    With(ForEachType(toks, pos), LAMBDA b :
    With(OptName(toks, b.pos), LAMBDA n :
    Then(match(toks, n.pos, "COLON"), LAMBDA m1 :
    Then(parse_expression(toks, m1.pos, 0), LAMBDA coll :
    Then(match(toks, coll.pos, "RPAREN"), LAMBDA m2 :
    Then(parse_block(toks, m2.pos), LAMBDA body :
    Ok(body.pos, ASTNode("ForStatement", "None",
                         <<Param(b.text, n.text), coll.val, Block(body.val)>>))))))))

\* the init clause of a for header
ForInit(toks, pos) ==
    IF LT(toks, pos, 1).type = "SEMI" THEN Ok(pos, NoNode)
    ELSE IF LT(toks, pos, 1).type \in TYPE_KEYWORDS
    THEN parse_local_variable_declaration_no_semi(toks, pos)
    ELSE parse_expression(toks, pos, 0)

\* a clause of a for header that may be left out before the token end
ForClause(toks, pos, end) ==
    IF LT(toks, pos, 1).type = end THEN Ok(pos, NoNode) ELSE parse_expression(toks, pos, 0)

\* for (init; condition; update) body, from the token after "("
ForClassic(toks, pos) ==
    Then(ForInit(toks, pos), LAMBDA init :
    Then(match(toks, init.pos, "SEMI"), LAMBDA s1 :
    Then(ForClause(toks, s1.pos, "SEMI"), LAMBDA cond :
    Then(match(toks, cond.pos, "SEMI"), LAMBDA s2 :
    Then(ForClause(toks, s2.pos, "RPAREN"), LAMBDA update :
    Then(match(toks, update.pos, "RPAREN"), LAMBDA m :
    Then(parse_block(toks, m.pos), LAMBDA body :
    Ok(body.pos, ASTNode("ForStatement", "None",
                         <<init.val, cond.val, update.val, Block(body.val)>>)))))))))

parse_for_statement(toks, pos) ==
    Then(Match2(toks, pos, "FOR", "LPAREN"), LAMBDA m :
    With(ForScan(toks, m.pos, 1), LAMBDA scan :
    IF scan = "diverges" THEN Diverge(m.pos)
    ELSE IF scan = "colon" THEN ForEach(toks, m.pos)
    ELSE ForClassic(toks, m.pos)))

\* while self.current.type not in ("CASE", "DEFAULT", "RBRACE"):
\* stmts.append(parse_statement()).  An iteration that ends where it began
\* is repeated for ever.
ArmLoop(toks, pos, stmts) ==
    IF LT(toks, pos, 1).type \in {"CASE", "DEFAULT", "RBRACE"} THEN Ok(pos, stmts)
    ELSE Then(parse_statement(toks, pos), LAMBDA s :
         IF s.pos = pos THEN Diverge(pos) ELSE ArmLoop(toks, s.pos, Append(stmts, s.val)))

\* case value: statements, from the token after case
CaseArm(toks, pos) ==
    Then(parse_expression(toks, pos, 0), LAMBDA case_val :
    Then(ArmLoop(toks, accept(toks, case_val.pos, "COLON"), <<>>), LAMBDA stmts :
    Ok(stmts.pos, ASTNode("CaseLabel", "None", <<case_val.val>> \o stmts.val))))

\* default: statements, from the token after default
DefaultArm(toks, pos) ==
    Then(ArmLoop(toks, accept(toks, pos, "COLON"), <<>>), LAMBDA stmts :
    Ok(stmts.pos, ASTNode("DefaultLabel", "None", stmts.val)))

\* while self.current.type not in ("RBRACE", EOF): case, default or advance
SwitchLoop(toks, pos, cases) ==
    LET cur == LT(toks, pos, 1)
    IN IF cur.type \in {"RBRACE", "EOF"} THEN Ok(pos, cases)
       ELSE IF cur.type \in {"CASE", "DEFAULT"}
       THEN Then(IF cur.type = "CASE" THEN CaseArm(toks, advance(toks, pos))
                 ELSE DefaultArm(toks, advance(toks, pos)), LAMBDA arm :
            SwitchLoop(toks, arm.pos, Append(cases, arm.val)))
       ELSE SwitchLoop(toks, advance(toks, pos), cases)

parse_switch_statement(toks, pos) ==
    Then(Match2(toks, pos, "SWITCH", "LPAREN"), LAMBDA m :
    Then(parse_expression(toks, m.pos, 0), LAMBDA expr :
    Then(match(toks, expr.pos, "RPAREN"), LAMBDA r :
    Then(SwitchLoop(toks, accept(toks, r.pos, "LBRACE"), <<>>), LAMBDA cases :
    Ok(accept(toks, cases.pos, "RBRACE"),
       ASTNode("SwitchStatement", "None", <<expr.val>> \o cases.val))))))

-----------------------------------------------------------------------------
(* SimpleJavaParser: classes and the compilation unit *)

\* the index of the first token from LT(i) on that is not a modifier
RECURSIVE ModifierScan(_, _, _)
ModifierScan(toks, pos, i) ==
    IF LT(toks, pos, i).type \in MODIFIERS THEN ModifierScan(toks, pos, i + 1) ELSE i

_is_constructor_start(toks, pos, _current_class_name) ==
    With(ModifierScan(toks, pos, 1), LAMBDA i :
        /\ LT(toks, pos, i).type = "IDENTIFIER"
        /\ LT(toks, pos, i + 1).type = "LPAREN"
        /\ LT(toks, pos, i).text = _current_class_name)

_looks_like_method_decl(toks, pos) ==
    With(ModifierScan(toks, pos, 1), LAMBDA i :
        /\ LT(toks, pos, i).type \in TYPE_KEYWORDS \cup {"VOID", "IDENTIFIER"}
        /\ LT(toks, pos, i + 1).type = "IDENTIFIER"
        /\ LT(toks, pos, i + 2).type = "LPAREN")

\* match("LPAREN"), parse_parameter_list(), match("RPAREN") and the optional
\* body: the children params + body of a constructor or a method
ParamsAndBody(toks, pos) ==
    Then(match(toks, pos, "LPAREN"), LAMBDA m1 :
    Then(parse_parameter_list(toks, m1.pos), LAMBDA params :
    Then(match(toks, params.pos, "RPAREN"), LAMBDA m2 :
    Then(parse_block(toks, m2.pos), LAMBDA body :
    Ok(body.pos, params.val \o body.val)))))

parse_constructor_declaration(toks, pos) ==
    With(ModifierLoop(toks, pos, <<>>), LAMBDA m :
    IF LT(toks, m.pos, 1).type # "IDENTIFIER" THEN Raise(m.pos)
    ELSE Then(ParamsAndBody(toks, advance(toks, m.pos)), LAMBDA pb :
         Ok(pb.pos, ASTNode("ConstructorDecl", LT(toks, m.pos, 1).text,
                            ModifiersChild(m.mods) \o pb.val))))

\* the return type of a method and the brackets after it
ReturnType(toks, pos) ==
    IF LT(toks, pos, 1).type \in TYPE_KEYWORDS \cup {"IDENTIFIER", "VOID"}
    THEN BracketLoopNoBreak(toks, advance(toks, pos), LT(toks, pos, 1).text)
    ELSE [pos |-> advance(toks, pos), text |-> UnknownText]

parse_method_declaration(toks, pos) ==
    With(ModifierLoop(toks, pos, <<>>), LAMBDA m :
    With(ReturnType(toks, m.pos), LAMBDA ret :
    Then(match(toks, ret.pos, "IDENTIFIER"), LAMBDA mn :
    Then(ParamsAndBody(toks, mn.pos), LAMBDA pb :
    Ok(pb.pos, ASTNode("MethodDecl", ret.text \o <<" ">> \o LT(toks, ret.pos, 1).text,
                       ModifiersChild(m.mods) \o pb.val))))))

\* a member of a class body that begins with a modifier, a type or a name
Member1(toks, pos, class_name) ==
    IF _is_constructor_start(toks, pos, class_name)
    THEN parse_constructor_declaration(toks, pos)
    ELSE IF _looks_like_method_decl(toks, pos) THEN parse_method_declaration(toks, pos)
    ELSE parse_field_declaration(toks, pos)

\* the loop of parse_class_declaration over the members of the body
RECURSIVE ClassBody(_, _, _, _)
ClassBody(toks, pos, class_name, body_children) ==
    LET cur == LT(toks, pos, 1)
    IN IF cur.type \in {"RBRACE", "EOF"} THEN Ok(pos, body_children)
       ELSE IF cur.type \in MODIFIERS \cup TYPE_KEYWORDS \cup {"IDENTIFIER", "VOID"}
       THEN Then(Member1(toks, pos, class_name), LAMBDA member :
            ClassBody(toks, member.pos, class_name, Append(body_children, member.val)))
       ELSE IF cur.type = "LBRACE"
       THEN Then(parse_block(toks, pos), LAMBDA block :
            ClassBody(toks, block.pos, class_name, Append(body_children, Block(block.val))))
       ELSE ClassBody(toks, advance(toks, pos), class_name, body_children)

\* extends Base: the position it leaves and [Base] when a base is named
Bases(toks, pos) ==
    IF LT(toks, pos, 1).type # "EXTENDS" THEN [pos |-> pos, base |-> <<>>]
    ELSE IF LT(toks, advance(toks, pos), 1).type = "IDENTIFIER"
    THEN [pos |-> advance(toks, advance(toks, pos)),
          base |-> <<ASTNode("Base", LT(toks, advance(toks, pos), 1).text, <<>>)>>]
    ELSE [pos |-> advance(toks, pos), base |-> <<>>]

parse_class_declaration(toks, pos, modifiers) ==
    Then(match(toks, pos, "CLASS"), LAMBDA m1 :
    Then(match(toks, m1.pos, "IDENTIFIER"), LAMBDA m2 :
    With(Bases(toks, m2.pos), LAMBDA bases :
    Then(match(toks, bases.pos, "LBRACE"), LAMBDA m3 :
    Then(ClassBody(toks, m3.pos, LT(toks, m1.pos, 1).text, bases.base), LAMBDA body :
    IF LT(toks, body.pos, 1).type = "EOF" THEN Raise(body.pos)
    ELSE Ok(advance(toks, body.pos),
            ASTNode("ClassDecl", LT(toks, m1.pos, 1).text,
                    ModifiersChild(modifiers) \o body.val)))))))

\* the class declaration after the modifiers, or NoNode for None
parse_type_declaration(toks, pos) ==
    With(ModifierLoop(toks, pos, <<>>), LAMBDA m :
    IF LT(toks, m.pos, 1).type = "CLASS" THEN parse_class_declaration(toks, m.pos, m.mods)
    ELSE Ok(m.pos, NoNode))

\* the loop of parse_compilation_unit
RECURSIVE UnitLoop(_, _, _)
UnitLoop(toks, pos, children) ==
    IF LT(toks, pos, 1).type = "EOF" THEN Ok(pos, children)
    ELSE IF LT(toks, pos, 1).type \in MODIFIERS \cup {"CLASS"}
    THEN Then(parse_type_declaration(toks, pos), LAMBDA td :
         IF td.val.type = "NoNode" THEN UnitLoop(toks, advance(toks, td.pos), children)
         ELSE UnitLoop(toks, td.pos, Append(children, td.val)))
    ELSE UnitLoop(toks, advance(toks, pos), children)

parse_compilation_unit(toks) ==
    Then(UnitLoop(toks, _skip_ignored(toks, 0), <<>>), LAMBDA u :
    Ok(u.pos, ASTNode("CompilationUnit", "None", u.val)))

parse(toks) == parse_compilation_unit(toks)

-----------------------------------------------------------------------------
(* The expression parser's specification: an expression is written token   *)
(* by token, operand after operand, the n-th operand being the identifier  *)
(* named by the n-th letter, and parse_expression is run on it.            *)

MaxParts == 3

TableOps == DOMAIN PRECEDENCE

\* the tokens the lexer makes of the operators and of the punctuation used
SymbolToken(type) ==
    LET hits == {i \in 1..Len(SYMBOLS_MAP) : SYMBOLS_MAP[i][2] = type}
    IN Token(type, SYMBOLS_MAP[CHOOSE i \in hits : TRUE][1])

Terminators == {"SEMI", "RPAREN", "COLON", "COMMA", "ASSIGN"}

Operands(toks) == {i \in 1..Len(toks) : toks[i].type = "IDENTIFIER"}
Parts(toks) == {i \in 1..Len(toks) : toks[i].type \in TableOps \cup {"QUESTION"}}

NextOperand(toks, k) == Token("IDENTIFIER", <<Lower[Cardinality(Operands(toks)) + k]>>)

\* the operators a part may use: the whole table for the first two parts
OpsAt(n) == IF n < 2 THEN TableOps ELSE {"ADD"}

\* the input without its EOF token
Written == SubSeq(input, 1, Len(input) - 1)
Open == parsed = NotParsed /\ input[Len(input) - 1].type = "IDENTIFIER"

ExprInit ==
    /\ input = <<NextOperand(<<>>, 1), emitEOF>>
    /\ parsed = NotParsed
    /\ OptIdle /\ LexIdle /\ TransIdle /\ MainIdle /\ SemIdle /\ StreamIdle /\ OwnIdle /\ WalkIdle

AddBinary ==
    /\ Open /\ Cardinality(Parts(input)) < MaxParts
    /\ \E op \in OpsAt(Cardinality(Parts(input))) :
          input' = Written \o <<SymbolToken(op), NextOperand(input, 1), emitEOF>>
    /\ UNCHANGED parsed
    /\ UNCHANGED notParseVars

AddTernary ==
    /\ Open /\ Cardinality(Parts(input)) < MaxParts
    /\ input' = Written \o <<SymbolToken("QUESTION"), NextOperand(input, 1),
                             SymbolToken("COLON"), NextOperand(input, 2), emitEOF>>
    /\ UNCHANGED parsed
    /\ UNCHANGED notParseVars

AddTerminator ==
    /\ Open
    /\ \E t \in Terminators : input' = Written \o <<SymbolToken(t), emitEOF>>
    /\ UNCHANGED parsed
    /\ UNCHANGED notParseVars

\* parser = SimpleJavaParser(tokens); parser.parse_expression()
ParseExpression ==
    /\ parsed = NotParsed
    /\ parsed' = parse_expression(input, 0, 0)
    /\ UNCHANGED input
    /\ UNCHANGED notParseVars

ExprNext == AddBinary \/ AddTernary \/ AddTerminator \/ ParseExpression

SpecExpr == ExprInit /\ [][ExprNext]_vars

-----------------------------------------------------------------------------
(* C5, C6 *)

\* the operand written at index i of the input
Id(i) == Identifier(input[i].text)

RECURSIVE HasTernaryRight(_)
HasTernaryRight(n) ==
    \/ n.type = "BinaryOp" /\ n.children[2].type = "Ternary"
    \/ \E i \in 1..Len(n.children) : HasTernaryRight(n.children[i])

\* C5: the ternary operator is recognized at the lowest level.  Parsing
\* a OP b ? c : d gives Ternary(BinaryOp(OP, a, b), c, d) for every table
\* operator OP, no Ternary is the right operand of a BinaryOp in a source
\* without parentheses, and a ? b : c ? d : e gives
\* Ternary(a, b, Ternary(c, d, e)).
C5_TernaryLowest ==
    /\ (/\ parsed # NotParsed /\ Len(input) = 8
        /\ input[2].type \in TableOps /\ input[4].type = "QUESTION")
       => parsed = Ok(7, Ternary(BinaryOp(input[2].type, Id(1), Id(3)), Id(5), Id(7)))
    /\ parsed.st = "ok" => ~HasTernaryRight(parsed.val)
    /\ (/\ parsed # NotParsed /\ Len(input) = 10
        /\ input[2].type = "QUESTION" /\ input[6].type = "QUESTION")
       => parsed = Ok(9, Ternary(Id(1), Id(3), Ternary(Id(5), Id(7), Id(9))))

\* the levels of the precedence table
C6_Table ==
    /\ TableOps = {"MUL", "DIV", "MOD", "ADD", "SUB", "GT", "LT", "GE", "LE", "EQUAL",
                   "NOTEQUAL", "AND", "OR", "BITAND", "BITOR", "CARET", "LSHIFT",
                   "RSHIFT", "URSHIFT"}
    /\ \A op \in {"MUL", "DIV", "MOD"} : PRECEDENCE[op] = 60
    /\ \A op \in {"ADD", "SUB"} : PRECEDENCE[op] = 50
    /\ \A op \in {"GT", "LT", "GE", "LE"} : PRECEDENCE[op] = 40
    /\ \A op \in {"EQUAL", "NOTEQUAL"} : PRECEDENCE[op] = 30
    /\ PRECEDENCE["AND"] = 20 /\ PRECEDENCE["OR"] = 10
    /\ \A op \in {"BITAND", "BITOR", "CARET", "LSHIFT", "RSHIFT", "URSHIFT"} :
          PRECEDENCE[op] = 5

\* parse_expression has run on a op1 b op2 c followed by another token
C6_Form ==
    /\ parsed # NotParsed /\ Len(input) >= 6
    /\ input[2].type \in TableOps /\ input[4].type \in TableOps

\* the tree the claim gives a op1 b op2 c
C6_Tree ==
    LET op1 == input[2].type
        op2 == input[4].type
    IN IF PRECEDENCE[op1] >= PRECEDENCE[op2]
       THEN BinaryOp(op2, BinaryOp(op1, Id(1), Id(3)), Id(5))
       ELSE BinaryOp(op1, Id(1), BinaryOp(op2, Id(3), Id(5)))

\* C6 as stated: a op1 b op2 c is grouped by the table, to the left on equal
\* levels, and every token that is not in the table ends the expression
\* without being consumed.
C6_AnyOtherTokenEnds ==
    /\ C6_Table
    /\ (C6_Form /\ input[6].type \notin TableOps) => parsed = Ok(5, C6_Tree)

\* C6 amended: a op1 b op2 c is grouped by the table, to the left on equal
\* levels; a token that is neither in the table nor "?" ends the expression
\* without being consumed, and "?" is consumed: it continues the expression
\* as a ternary.
C6_PrecedenceClimbing ==
    /\ C6_Table
    /\ (C6_Form /\ input[6].type \notin TableOps \cup {"QUESTION"})
       => parsed = Ok(5, C6_Tree)
    /\ (parsed # NotParsed /\ input[Len(input) - 1].type \in Terminators)
       => parsed.st = "ok" /\ parsed.pos = Len(input) - 2
    /\ (C6_Form /\ input[6].type = "QUESTION" /\ parsed.st = "ok") => parsed.pos > 5

\* a || b * c ; has been parsed: the tighter operator groups to the right
\* and the parser stops at the semicolon
C6_Witness ==
    /\ C6_Form /\ Len(input) = 7
    /\ input[2].type = "OR" /\ input[4].type = "MUL" /\ input[6].type = "SEMI"
    /\ parsed.st = "ok" /\ parsed.pos = 5
    /\ parsed.val.children[2].type = "BinaryOp"

-----------------------------------------------------------------------------
(* The parser's specification: a class is written piece by piece, every    *)
(* prefix being a token stream that ends with EOF, and parse is run on it. *)

MaxTokens == 16

KeywordToken(type) ==
    LET hits == {i \in 1..Len(KEYWORDS) : KEYWORDS[i][2] = type}
    IN Token(type, KEYWORDS[CHOOSE i \in hits : TRUE][1])

Name(c) == Token("IDENTIFIER", <<c>>)
Number(c) == Token("NUMBER", <<c>>)

\* class A {
ClassHeader == <<KeywordToken("CLASS"), Name("A"), SymbolToken("LBRACE")>>

\* the pieces of a class body
Pieces ==
    { \* void f ( ) {
      <<KeywordToken("VOID"), Name("f"), SymbolToken("LPAREN"), SymbolToken("RPAREN"),
        SymbolToken("LBRACE")>>,
      \* switch ( x ) {
      <<KeywordToken("SWITCH"), SymbolToken("LPAREN"), Name("x"), SymbolToken("RPAREN"),
        SymbolToken("LBRACE")>>,
      \* case 1 :
      <<KeywordToken("CASE"), Number("1"), SymbolToken("COLON")>>,
      \* x = 1 ;
      <<Name("x"), SymbolToken("ASSIGN"), Number("1"), SymbolToken("SEMI")>>,
      \* }
      <<SymbolToken("RBRACE")>>,
      \* int x = { 1 ,
      <<KeywordToken("INT"), Name("x"), SymbolToken("ASSIGN"), SymbolToken("LBRACE"),
        Number("1"), SymbolToken("COMMA")>>,
      \* for (
      <<KeywordToken("FOR"), SymbolToken("LPAREN")>>,
      \* ; ; ) {
      <<SymbolToken("SEMI"), SymbolToken("SEMI"), SymbolToken("RPAREN"),
        SymbolToken("LBRACE")>>,
      \* L <
      <<Name("L"), SymbolToken("LT")>>,
      \* T > x ;
      <<Name("T"), SymbolToken("GT"), Name("x"), SymbolToken("SEMI")>> }

ParseInit ==
    /\ input = <<emitEOF>>
    /\ parsed = NotParsed
    /\ OptIdle /\ LexIdle /\ TransIdle /\ MainIdle /\ SemIdle /\ StreamIdle /\ OwnIdle /\ WalkIdle

WriteClass ==
    /\ parsed = NotParsed /\ input = <<emitEOF>>
    /\ input' = ClassHeader \o <<emitEOF>>
    /\ UNCHANGED parsed
    /\ UNCHANGED notParseVars

WritePiece ==
    /\ parsed = NotParsed /\ input # <<emitEOF>>
    /\ \E p \in Pieces :
          /\ Len(Written) + Len(p) <= MaxTokens
          /\ input' = Written \o p \o <<emitEOF>>
    /\ UNCHANGED parsed
    /\ UNCHANGED notParseVars

\* parser = SimpleJavaParser(tokens); parser.parse()
Parse ==
    /\ parsed = NotParsed
    /\ parsed' = parse(input)
    /\ UNCHANGED input
    /\ UNCHANGED notParseVars

ParseNext == WriteClass \/ WritePiece \/ Parse

SpecParse == ParseInit /\ [][ParseNext]_vars

-----------------------------------------------------------------------------
(* C3 *)

\* C3: for every finite token stream terminated by EOF, parse terminates:
\* it returns a CompilationUnit or raises SyntaxError, wherever the EOF
\* falls (class body, block, switch body, case arm, array initializer,
\* for header, generic suffix).
C3_ParseTerminates ==
    parsed # NotParsed =>
        \/ parsed.st = "SyntaxError"
        \/ parsed.st = "ok" /\ parsed.val.type = "CompilationUnit"

-----------------------------------------------------------------------------
(* Translator.  Texts are sequences of characters; the translator's        *)
(* indent_level and _in_constructor, which every method restores before    *)
(* it returns, are the parameters lvl and ctor.                            *)

INDENT_STR == <<" ", " ", " ", " ">>

RECURSIVE indent(_)
indent(lvl) == IF lvl <= 0 THEN <<>> ELSE INDENT_STR \o indent(lvl - 1)

\* s.startswith(p), s.endswith(p), p in s
HasPrefix(s, p) == Len(p) <= Len(s) /\ SubSeq(s, 1, Len(p)) = p
HasSuffix(s, p) == Len(p) <= Len(s) /\ SubSeq(s, Len(s) - Len(p) + 1, Len(s)) = p
Contains(s, p) == \E i \in 0..(Len(s) - Len(p)) : SubSeq(s, i + 1, i + Len(p)) = p

\* [x for x in ss if x]
NonEmpty(ss) == SelectSeq(ss, LAMBDA x : x # <<>>)

\* the least member of a set of numbers
First(S) == CHOOSE i \in S : \A j \in S : i <= j

\* s.split(): the words between runs of white space
RECURSIVE WordsFrom(_, _)
WordsFrom(s, from) ==
    LET starts == {i \in from..Len(s) : ~IsSpace(s[i])}
        start == First(starts)
        stops == {i \in start..Len(s) : IsSpace(s[i])}
    IN IF starts = {} THEN <<>>
       ELSE IF stops = {} THEN <<SubSeq(s, start, Len(s))>>
       ELSE <<SubSeq(s, start, First(stops) - 1)>> \o WordsFrom(s, First(stops))

split(s) == WordsFrom(s, 1)

\* s.splitlines(): lines end at "\n", "\r" or "\r\n"; no line after the last
\* line end
RECURSIVE LinesFrom(_, _)
LinesFrom(s, from) ==
    LET ends == {i \in from..Len(s) : s[i] \in {"\n", "\r"}}
        end == First(ends)
        next == IF s[end] = "\r" /\ end < Len(s) /\ s[end + 1] = "\n" THEN end + 2 ELSE end + 1
    IN IF from > Len(s) THEN <<>>
       ELSE IF ends = {} THEN <<SubSeq(s, from, Len(s))>>
       ELSE <<SubSeq(s, from, end - 1)>> \o LinesFrom(s, next)

splitlines(s) == LinesFrom(s, 1)

\* "\n".join(lines) and ", ".join(items)
JoinLines(lines) == Join(lines, <<"\n">>)
JoinComma(items) == Join(items, <<",", " ">>)

\* a run of digits in which single underscores may separate digits
DigitRun(s) ==
    /\ s # <<>> /\ IsDigit(s[1]) /\ IsDigit(s[Len(s)])
    /\ \A i \in 1..Len(s) : IsDigit(s[i]) \/ (s[i] = "_" /\ s[i + 1] # "_")

Unsigned(s) == IF s # <<>> /\ s[1] \in {"+", "-"} THEN Tail(s) ELSE s

\* int(s) returns
IsPyInt(s) == DigitRun(Unsigned(Strip(s)))

\* the text m is digits, digits. , digits.digits or .digits
IsMantissa(m) ==
    \E p \in 0..Len(m) :
        /\ p = 0 \/ DigitRun(SubSeq(m, 1, p))
        /\ \/ p = Len(m) /\ p > 0
           \/ /\ p < Len(m) /\ m[p + 1] = "."
              /\ p + 1 = Len(m) \/ DigitRun(SubSeq(m, p + 2, Len(m)))
              /\ Len(m) > 1

\* float(s) returns
IsPyFloat(s) ==
    LET u == Unsigned(Strip(s))
        es == {i \in 1..Len(u) : u[i] \in {"e", "E"}}
    IN \/ ToLower(u) \in {<<"i", "n", "f">>, <<"i", "n", "f", "i", "n", "i", "t", "y">>, <<"n", "a", "n">>}
       \/ IsMantissa(u)
       \/ \E i \in es : /\ IsMantissa(SubSeq(u, 1, i - 1))
                        /\ DigitRun(Unsigned(SubSeq(u, i + 1, Len(u))))

_format_literal_token(raw_value) ==
    LET s == raw_value
        ls == ToLower(s)
    IN IF ls = <<"n", "u", "l", "l">> THEN <<"N", "o", "n", "e">>
       ELSE IF ls = <<"t", "r", "u", "e">> THEN <<"T", "r", "u", "e">>
       ELSE IF ls = <<"f", "a", "l", "s", "e">> THEN <<"F", "a", "l", "s", "e">>
       ELSE IF \/ StartsWith(s, "\"") /\ EndsWith(s, "\"")
               \/ StartsWith(s, "'") /\ EndsWith(s, "'") THEN s
       ELSE IF IsPyInt(s) \/ IsPyFloat(s) THEN s
       ELSE <<"\"">> \o Replace(s, "\"", <<"\\", "\"">>) \o <<"\"">>

\* re.sub(r"\s*c\s*", c, s): the white space around every c goes
SqueezeAround(s, c) ==
    LET gone(i) ==
            /\ IsSpace(s[i])
            /\ \/ \E j \in (i + 1)..Len(s) :
                      s[j] = c /\ \A k \in i..(j - 1) : IsSpace(s[k])
               \/ \E j \in 1..(i - 1) :
                      s[j] = c /\ \A k \in (j + 1)..i : IsSpace(s[k])
        keep == {i \in 1..Len(s) : ~gone(i)}
        RECURSIVE Pick(_)
        Pick(i) == IF i > Len(s) THEN <<>>
                   ELSE (IF i \in keep THEN <<s[i]>> ELSE <<>>) \o Pick(i + 1)
    IN Pick(1)

RECURSIVE StripArrays(_)
StripArrays(jt) == IF HasSuffix(jt, <<"[", "]">>) THEN StripArrays(SubSeq(jt, 1, Len(jt) - 2)) ELSE jt

RECURSIVE array_depth(_)
array_depth(jt) ==
    IF HasSuffix(jt, <<"[", "]">>) THEN 1 + array_depth(SubSeq(jt, 1, Len(jt) - 2)) ELSE 0

base_map ==
    << <<<<"b", "y", "t", "e">>, <<"i", "n", "t">>>>, <<<<"s", "h", "o", "r", "t">>, <<"i", "n", "t">>>>, <<<<"i", "n", "t">>, <<"i", "n", "t">>>>, <<<<"i", "n", "t", "e", "g", "e", "r">>, <<"i", "n", "t">>>>,
       <<<<"l", "o", "n", "g">>, <<"i", "n", "t">>>>, <<<<"f", "l", "o", "a", "t">>, <<"f", "l", "o", "a", "t">>>>, <<<<"d", "o", "u", "b", "l", "e">>, <<"f", "l", "o", "a", "t">>>>,
       <<<<"b", "o", "o", "l", "e", "a", "n">>, <<"b", "o", "o", "l">>>>, <<<<"b", "o", "o", "l">>, <<"b", "o", "o", "l">>>>, <<<<"c", "h", "a", "r">>, <<"s", "t", "r">>>>,
       <<<<"c", "h", "a", "r", "a", "c", "t", "e", "r">>, <<"s", "t", "r">>>>, <<<<"s", "t", "r", "i", "n", "g">>, <<"s", "t", "r">>>>, <<<<"o", "b", "j", "e", "c", "t">>, <<"o", "b", "j", "e", "c", "t">>>>,
       <<<<"v", "o", "i", "d">>, <<"N", "o", "n", "e">>>>, <<<<"d", "e", "c", "i", "m", "a", "l", "_", "l", "i", "t", "e", "r", "a", "l">>, <<"i", "n", "t">>>>, <<<<"f", "l", "o", "a", "t", "_", "l", "i", "t", "e", "r", "a", "l">>, <<"f", "l", "o", "a", "t">>>>,
       <<<<"h", "e", "x", "_", "f", "l", "o", "a", "t", "_", "l", "i", "t", "e", "r", "a", "l">>, <<"f", "l", "o", "a", "t">>>>, <<<<"b", "o", "o", "l", "_", "l", "i", "t", "e", "r", "a", "l">>, <<"b", "o", "o", "l">>>>,
       <<<<"s", "t", "r", "i", "n", "g", "_", "l", "i", "t", "e", "r", "a", "l">>, <<"s", "t", "r">>>>, <<<<"t", "e", "x", "t", "_", "b", "l", "o", "c", "k">>, <<"s", "t", "r">>>> >>

RECURSIVE split_top_level(_, _, _, _)
split_top_level(s, cur, depth, out) ==
    IF s = <<>> THEN IF cur # <<>> THEN Append(out, Strip(cur)) ELSE out
    ELSE LET ch == Head(s)
             d == IF ch = "<" THEN depth + 1 ELSE IF ch = ">" THEN depth - 1 ELSE depth
         IN IF ch = "," /\ d = 0
            THEN split_top_level(Tail(s), <<>>, d, Append(out, Strip(cur)))
            ELSE split_top_level(Tail(s), Append(cur, ch), d, out)

IndexOf(s, c) == CHOOSE i \in 1..Len(s) : s[i] = c /\ \A j \in 1..(i - 1) : s[j] # c

RECURSIVE to_py(_)
to_py(s0) ==
    LET s == Strip(s0)
        generic == Contains(s, <<"<">>) /\ HasSuffix(s, <<">">>)
        base == IF generic THEN SubSeq(s, 1, IndexOf(s, "<") - 1) ELSE s
        b == ToLower(base)
        hits == {i \in 1..Len(base_map) : base_map[i][1] = b}
    IN IF ~generic
       THEN IF hits # {} THEN base_map[CHOOSE i \in hits : TRUE][2]
            ELSE IF b \in {<<"l", "i", "s", "t">>, <<"a", "r", "r", "a", "y", "l", "i", "s", "t">>} THEN <<"l", "i", "s", "t", "[", "A", "n", "y", "]">>
            ELSE IF b \in {<<"s", "e", "t">>, <<"h", "a", "s", "h", "s", "e", "t">>} THEN <<"s", "e", "t", "[", "A", "n", "y", "]">>
            ELSE IF b \in {<<"m", "a", "p">>, <<"h", "a", "s", "h", "m", "a", "p">>} THEN <<"d", "i", "c", "t", "[", "A", "n", "y", ",", " ", "A", "n", "y", "]">>
            ELSE IF b = <<"o", "p", "t", "i", "o", "n", "a", "l">> THEN <<"O", "p", "t", "i", "o", "n", "a", "l", "[", "A", "n", "y", "]">>
            ELSE base
       ELSE LET args == split_top_level(SubSeq(s, IndexOf(s, "<") + 1, Len(s) - 1),
                                        <<>>, 0, <<>>)
                arg(i) == IF Len(args) >= i THEN to_py(args[i]) ELSE <<"A", "n", "y">>
            IN IF b \in {<<"l", "i", "s", "t">>, <<"a", "r", "r", "a", "y", "l", "i", "s", "t">>} THEN <<"l", "i", "s", "t", "[">> \o arg(1) \o <<"]">>
               ELSE IF b \in {<<"s", "e", "t">>, <<"h", "a", "s", "h", "s", "e", "t">>} THEN <<"s", "e", "t", "[">> \o arg(1) \o <<"]">>
               ELSE IF b \in {<<"m", "a", "p">>, <<"h", "a", "s", "h", "m", "a", "p">>}
               THEN <<"d", "i", "c", "t", "[">> \o arg(1) \o <<",", " ">> \o arg(2) \o <<"]">>
               ELSE IF b = <<"o", "p", "t", "i", "o", "n", "a", "l">> THEN <<"O", "p", "t", "i", "o", "n", "a", "l", "[">> \o arg(1) \o <<"]">>
               ELSE base

RECURSIVE ListOf(_, _)
ListOf(py, depth) == IF depth = 0 THEN py ELSE ListOf(<<"l", "i", "s", "t", "[">> \o py \o <<"]">>, depth - 1)

\* java_type is a text here; the empty text stands for None and ""
map_java_type_to_py(java_type) ==
    IF java_type = <<>> THEN <<"A", "n", "y">>
    ELSE LET jt == SqueezeAround(SqueezeAround(SqueezeAround(Strip(java_type), "<"),
                                               ">"), ",")
         IN ListOf(to_py(StripArrays(jt)), array_depth(jt))

default_for_type(py_type) ==
    IF py_type = <<>> THEN <<"N", "o", "n", "e">>
    ELSE IF HasPrefix(py_type, <<"l", "i", "s", "t", "[">>) THEN <<"[", "]">>
    ELSE IF py_type = <<"i", "n", "t">> THEN <<"0">>
    ELSE IF py_type = <<"f", "l", "o", "a", "t">> THEN <<"0", ".", "0">>
    ELSE IF py_type = <<"b", "o", "o", "l">> THEN <<"F", "a", "l", "s", "e">>
    ELSE IF py_type = <<"s", "t", "r">> THEN <<"\"", "\"">>
    ELSE <<"N", "o", "n", "e">>
TYPE_NAMES ==
    << <<"URSHIFT_ASSIGN", <<"U", "R", "S", "H", "I", "F", "T", "_", "A", "S", "S", "I", "G", "N">>>>, 
       <<"RSHIFT_ASSIGN", <<"R", "S", "H", "I", "F", "T", "_", "A", "S", "S", "I", "G", "N">>>>, 
       <<"LSHIFT_ASSIGN", <<"L", "S", "H", "I", "F", "T", "_", "A", "S", "S", "I", "G", "N">>>>, 
       <<"URSHIFT", <<"U", "R", "S", "H", "I", "F", "T">>>>, <<"ELLIPSIS", <<"E", "L", "L", "I", "P", "S", "I", "S">>>>, 
       <<"RSHIFT", <<"R", "S", "H", "I", "F", "T">>>>, <<"LSHIFT", <<"L", "S", "H", "I", "F", "T">>>>, 
       <<"EQUAL", <<"E", "Q", "U", "A", "L">>>>, <<"LE", <<"L", "E">>>>, <<"GE", <<"G", "E">>>>, 
       <<"NOTEQUAL", <<"N", "O", "T", "E", "Q", "U", "A", "L">>>>, <<"AND", <<"A", "N", "D">>>>, <<"OR", <<"O", "R">>>>, 
       <<"INC", <<"I", "N", "C">>>>, <<"DEC", <<"D", "E", "C">>>>, 
       <<"ADD_ASSIGN", <<"A", "D", "D", "_", "A", "S", "S", "I", "G", "N">>>>, 
       <<"SUB_ASSIGN", <<"S", "U", "B", "_", "A", "S", "S", "I", "G", "N">>>>, 
       <<"MUL_ASSIGN", <<"M", "U", "L", "_", "A", "S", "S", "I", "G", "N">>>>, 
       <<"DIV_ASSIGN", <<"D", "I", "V", "_", "A", "S", "S", "I", "G", "N">>>>, 
       <<"AND_ASSIGN", <<"A", "N", "D", "_", "A", "S", "S", "I", "G", "N">>>>, <<"OR_ASSIGN", <<"O", "R", "_", "A", "S", "S", "I", "G", "N">>>>, 
       <<"XOR_ASSIGN", <<"X", "O", "R", "_", "A", "S", "S", "I", "G", "N">>>>, 
       <<"MOD_ASSIGN", <<"M", "O", "D", "_", "A", "S", "S", "I", "G", "N">>>>, <<"ARROW", <<"A", "R", "R", "O", "W">>>>, 
       <<"COLONCOLON", <<"C", "O", "L", "O", "N", "C", "O", "L", "O", "N">>>>, <<"LBRACE", <<"L", "B", "R", "A", "C", "E">>>>, 
       <<"RBRACE", <<"R", "B", "R", "A", "C", "E">>>>, <<"LPAREN", <<"L", "P", "A", "R", "E", "N">>>>, 
       <<"RPAREN", <<"R", "P", "A", "R", "E", "N">>>>, <<"LBRACK", <<"L", "B", "R", "A", "C", "K">>>>, 
       <<"RBRACK", <<"R", "B", "R", "A", "C", "K">>>>, <<"SEMI", <<"S", "E", "M", "I">>>>, 
       <<"COMMA", <<"C", "O", "M", "M", "A">>>>, <<"DOT", <<"D", "O", "T">>>>, 
       <<"ASSIGN", <<"A", "S", "S", "I", "G", "N">>>>, <<"GT", <<"G", "T">>>>, <<"LT", <<"L", "T">>>>, 
       <<"BANG", <<"B", "A", "N", "G">>>>, <<"TILDE", <<"T", "I", "L", "D", "E">>>>, 
       <<"QUESTION", <<"Q", "U", "E", "S", "T", "I", "O", "N">>>>, <<"COLON", <<"C", "O", "L", "O", "N">>>>, 
       <<"ADD", <<"A", "D", "D">>>>, <<"SUB", <<"S", "U", "B">>>>, <<"MUL", <<"M", "U", "L">>>>, 
       <<"DIV", <<"D", "I", "V">>>>, <<"BITAND", <<"B", "I", "T", "A", "N", "D">>>>, 
       <<"BITOR", <<"B", "I", "T", "O", "R">>>>, <<"CARET", <<"C", "A", "R", "E", "T">>>>, <<"MOD", <<"M", "O", "D">>>>, 
       <<"AT", <<"A", "T">>>>, <<"IDENTIFIER", <<"I", "D", "E", "N", "T", "I", "F", "I", "E", "R">>>>, 
       <<"NUMBER", <<"N", "U", "M", "B", "E", "R">>>>, <<"STRING", <<"S", "T", "R", "I", "N", "G">>>>, 
       <<"CHAR", <<"C", "H", "A", "R">>>>, <<"UNKNOWN", <<"U", "N", "K", "N", "O", "W", "N">>>> >>

\* the name of a token type as text; the type of the terminal token is -1
TypeName(type) ==
    LET kws == {i \in 1..Len(KEYWORDS) : KEYWORDS[i][2] = type}
        syms == {i \in 1..Len(TYPE_NAMES) : TYPE_NAMES[i][1] = type}
    IN IF type = "EOF" THEN <<"-", "1">>
       ELSE IF kws # {} THEN TypeText(Token(type, KEYWORDS[CHOOSE i \in kws : TRUE][1]))
       ELSE TYPE_NAMES[CHOOSE i \in syms : TRUE][2]

\* children[i - 1] if there are that many children, else None
Child(node, i) == IF Len(node.children) >= i THEN node.children[i] ELSE NoNode

\* the expression of the first Init child that has children, or None
InitNode(node) ==
    LET hits == {i \in 1..Len(node.children) :
                    node.children[i].type = "Init" /\ node.children[i].children # <<>>}
    IN IF hits = {} THEN NoNode ELSE node.children[First(hits)].children[1]

\* " ".join(parts[:-1])
JoinButLast(parts) == Join(SubSeq(parts, 1, Len(parts) - 1), <<" ">>)

\* default_for_type(py_type) if py_type else "None"
DefaultOrNone(py_type) == IF py_type # <<>> THEN default_for_type(py_type) ELSE <<"N", "o", "n", "e">>

op_map ==
    [t \in {"GT"} |-> <<">">>] @@ [t \in {"LT"} |-> <<"<">>] @@ [t \in {"GE"} |-> <<">", "=">>] @@
    [t \in {"LE"} |-> <<"<", "=">>] @@ [t \in {"EQUAL"} |-> <<"=", "=">>] @@ [t \in {"NOTEQUAL"} |-> <<"!", "=">>] @@
    [t \in {"ADD"} |-> <<"+">>] @@ [t \in {"SUB"} |-> <<"-">>] @@ [t \in {"MUL"} |-> <<"*">>] @@
    [t \in {"DIV"} |-> <<"/">>] @@ [t \in {"MOD"} |-> <<"%">>] @@ [t \in {"AND"} |-> <<"a", "n", "d">>] @@
    [t \in {"OR"} |-> <<"o", "r">>] @@ [t \in {"BITAND"} |-> <<"&">>] @@ [t \in {"BITOR"} |-> <<"|">>] @@
    [t \in {"CARET"} |-> <<"^">>] @@ [t \in {"LSHIFT"} |-> <<"<", "<">>] @@
    [t \in {"RSHIFT", "URSHIFT"} |-> <<">", ">">>]

\* the six renderings of a prefix operator, and base_src for any other
PrefixSource(v, base_src) ==
    IF v = "INC" THEN base_src \o <<" ", "+", "=", " ", "1">>
    ELSE IF v = "DEC" THEN base_src \o <<" ", "-", "=", " ", "1">>
    ELSE IF v = "BANG" THEN <<"n", "o", "t", " ">> \o base_src
    ELSE IF v = "TILDE" THEN <<"~", "(">> \o base_src \o <<")">>
    ELSE IF v = "ADD" THEN <<"+", "(">> \o base_src \o <<")">>
    ELSE IF v = "SUB" THEN <<"-", "(">> \o base_src \o <<")">>
    ELSE base_src

PostfixSource(v, base_src) ==
    IF v = "INC" THEN base_src \o <<" ", "+", "=", " ", "1">>
    ELSE IF v = "DEC" THEN base_src \o <<" ", "-", "=", " ", "1">>
    ELSE base_src

RECURSIVE _expr_to_source(_, _)
RECURSIVE _trans_field_decl(_, _, _)

\* [self._expr_to_source(a) for a in nodes]
Sources(nodes, ctor) == [i \in 1..Len(nodes) |-> _expr_to_source(nodes[i], ctor)]

\* the source of a Call whose base renders as base_src
CallSource(expr, base_src, ctor) ==
    LET args == expr.children
        first_src == IF args # <<>> /\ args[1].type # "NoNode"
                     THEN _expr_to_source(args[1], ctor) ELSE <<>>
    IN IF HasSuffix(base_src, <<".", "p", "r", "i", "n", "t", "l", "n">>) \/ base_src = <<"S", "y", "s", "t", "e", "m", ".", "o", "u", "t", ".", "p", "r", "i", "n", "t", "l", "n">>
       THEN <<"p", "r", "i", "n", "t", "(">> \o first_src \o <<")">>
       ELSE IF HasSuffix(base_src, <<".", "p", "r", "i", "n", "t">>) \/ base_src = <<"S", "y", "s", "t", "e", "m", ".", "o", "u", "t", ".", "p", "r", "i", "n", "t">>
       THEN <<"p", "r", "i", "n", "t", "(">> \o first_src \o <<",", " ", "e", "n", "d", "=", "'", "'", ")">>
       ELSE IF base_src = <<"s", "e", "l", "f">> THEN <<"s", "e", "l", "f", ".", "_", "_", "i", "n", "i", "t", "_", "_", "(">> \o JoinComma(Sources(args, ctor)) \o <<")">>
       ELSE IF base_src = <<"s", "u", "p", "e", "r">>
       THEN <<"s", "u", "p", "e", "r", "(", ")", ".", "_", "_", "i", "n", "i", "t", "_", "_", "(">> \o JoinComma(Sources(args, ctor)) \o <<")">>
       ELSE IF base_src = <<"L", "i", "s", "t", ".", "o", "f">> THEN <<"[">> \o JoinComma(Sources(args, ctor)) \o <<"]">>
       ELSE base_src \o <<"(">> \o JoinComma(Sources(args, ctor)) \o <<")">>

\* (expr.value or "").split()[-1]; Python raises IndexError when the value
\* has no word, which no Param of the parser has
LastWord(value) ==
    LET parts == split(value) IN IF parts = <<>> THEN <<>> ELSE parts[Len(parts)]

_expr_to_source(expr, ctor) ==
    LET t == expr.type
    IN IF t = "NoNode" THEN <<>>
       ELSE IF t = "Literal" THEN _format_literal_token(expr.value)
       ELSE IF t = "Identifier"
       THEN LET v == expr.value
                lv == ToLower(v)
            IN IF v = <<"t", "h", "i", "s">> THEN <<"s", "e", "l", "f">>
               ELSE IF v = <<"s", "u", "p", "e", "r">> THEN <<"s", "u", "p", "e", "r">>
               ELSE IF lv = <<"t", "r", "u", "e">> THEN <<"T", "r", "u", "e">>
               ELSE IF lv = <<"f", "a", "l", "s", "e">> THEN <<"F", "a", "l", "s", "e">>
               ELSE IF lv = <<"n", "u", "l", "l">> THEN <<"N", "o", "n", "e">>
               ELSE v
       ELSE IF t = "Paren" THEN <<"(">> \o _expr_to_source(Child(expr, 1), ctor) \o <<")">>
       ELSE IF t = "Member"
       THEN _expr_to_source(Child(expr, 1), ctor) \o <<".">> \o expr.value
       ELSE IF t = "Call"
       THEN With(_expr_to_source(expr.vnode[1], ctor),
                 LAMBDA base_src : CallSource(expr, base_src, ctor))
       ELSE IF t = "BinaryOp"
       THEN _expr_to_source(expr.children[1], ctor) \o <<" ">>
            \o (IF expr.value \in DOMAIN op_map THEN op_map[expr.value]
                ELSE TypeName(expr.value))
            \o <<" ">> \o _expr_to_source(expr.children[2], ctor)
       ELSE IF t = "Assign"
       THEN (IF ctor /\ expr.children[1].type = "Identifier" THEN <<"s", "e", "l", "f", ".">> ELSE <<>>)
            \o _expr_to_source(expr.children[1], ctor) \o <<" ", "=", " ">>
            \o _expr_to_source(expr.children[2], ctor)
       ELSE IF t = "Param" THEN LastWord(expr.value)
       ELSE IF t = "PostfixOp"
       THEN PostfixSource(expr.value, _expr_to_source(expr.children[1], ctor))
       ELSE IF t = "PrefixOp"
       THEN PrefixSource(expr.value, _expr_to_source(expr.children[1], ctor))
       ELSE IF t = "Ternary"
       THEN _expr_to_source(expr.children[2], ctor) \o <<" ", "i", "f", " ">>
            \o _expr_to_source(expr.children[1], ctor) \o <<" ", "e", "l", "s", "e", " ">>
            \o _expr_to_source(expr.children[3], ctor)
       ELSE IF t = "ArrayInit" THEN <<"[">> \o JoinComma(Sources(expr.children, ctor)) \o <<"]">>
       ELSE IF t = "FieldDecl" THEN Strip(_trans_field_decl(expr, 0, ctor))
       ELSE Join(NonEmpty(Sources(expr.children, ctor)), <<" ">>)

\* FieldDecl("T name", [Init(expr)?]) as "name: pyT = init"
_trans_field_decl(node, lvl, ctor) ==
    LET parts == split(node.value)
        declared_type == IF Len(parts) >= 2 THEN JoinButLast(parts)
                         ELSE IF Len(parts) = 1 THEN parts[1] ELSE <<>>
        name == IF Len(parts) >= 2 THEN parts[Len(parts)] ELSE <<"v", "a", "r">>
        init_node == InitNode(node)
    IN With(IF declared_type # <<>> THEN map_java_type_to_py(declared_type) ELSE <<>>,
            LAMBDA py_type :
       With(IF init_node.type = "NoNode" THEN <<>> ELSE _expr_to_source(init_node, ctor),
            LAMBDA init_src :
       indent(lvl) \o name
       \o (IF py_type # <<>> /\ py_type # <<"N", "o", "n", "e">> THEN <<":", " ">> \o py_type ELSE <<>>)
       \o <<" ", "=", " ">> \o (IF init_src # <<>> THEN init_src ELSE DefaultOrNone(py_type))))

_trans_init_wrapper(node, ctor) ==
    IF node.children # <<>> THEN _expr_to_source(node.children[1], ctor) ELSE <<>>

RECURSIVE _translate_node(_, _, _)

\* the translations of nodes, one text per node
Translations(nodes, lvl, ctor) == [i \in 1..Len(nodes) |-> _translate_node(nodes[i], lvl, ctor)]

\* children without the Modifiers child they begin with
SkipModifiers(children) ==
    IF children # <<>> /\ children[1].type = "Modifiers" THEN Tail(children) ELSE children

IsParam(c) == c.type = "Param"
NotParam(c) == c.type # "Param"

\* the number of parameters of a constructor
Arity(c) == Len(SelectSeq(c.children, IsParam))

\* "name: type" of a parameter, its name without a type, "arg" without both
ParamPart(p) ==
    LET pp == split(Strip(p.value))
    IN IF Len(pp) >= 2
       THEN pp[Len(pp)] \o <<":", " ">> \o map_java_type_to_py(JoinButLast(pp))
       ELSE IF pp # <<>> THEN pp[Len(pp)] ELSE <<"a", "r", "g">>

ParamParts(params) == [i \in 1..Len(params) |-> ParamPart(params[i])]

_trans_compilation_unit(node, lvl, ctor) ==
    Join(NonEmpty(Translations(node.children, lvl, ctor)), <<"\n", "\n">>)

IsFieldBlock(ch) == ch.type = "Block" /\ \A i \in 1..Len(ch.children) : ch.children[i].type = "FieldDecl"

\* the fields of _split_fields_ctors_others: field declarations and the
\* declarations of blocks of nothing but field declarations
RECURSIVE FieldsOf(_)
FieldsOf(children) ==
    IF children = <<>> THEN <<>>
    ELSE (IF Head(children).type = "FieldDecl" THEN <<Head(children)>>
          ELSE IF IsFieldBlock(Head(children)) THEN Head(children).children
          ELSE <<>>) \o FieldsOf(Tail(children))

IsCtor(ch) == ch.type = "ConstructorDecl"
IsOther(ch) == ch.type \notin {"FieldDecl", "ConstructorDecl"} /\ ~IsFieldBlock(ch)

_split_fields_ctors_others(children) ==
    [fields |-> FieldsOf(children), ctors |-> SelectSeq(children, IsCtor),
     others |-> SelectSeq(children, IsOther)]

\* the value of the first Modifiers child has STATIC in it
IsStaticField(f) ==
    LET hits == {i \in 1..Len(f.children) : f.children[i].type = "Modifiers"}
    IN hits # {} /\ Contains(f.children[First(hits)].value, <<"S", "T", "A", "T", "I", "C">>)

IsInstanceField(f) == ~IsStaticField(f)

_split_static_instance_fields(fields) ==
    [static_fields |-> SelectSeq(fields, IsStaticField),
     instance_fields |-> SelectSeq(fields, IsInstanceField)]

\* FieldDecl("T name", [Init(expr)?]) as "self.name: pyT = rhs"
_field_as_instance_assignment(field_node, ctor) ==
    LET parts == split(field_node.value)
        name == IF parts # <<>> THEN parts[Len(parts)] ELSE <<"v", "a", "r">>
        init_node == InitNode(field_node)
    IN With(IF Len(parts) >= 2 THEN map_java_type_to_py(JoinButLast(parts)) ELSE <<>>,
            LAMBDA py_type :
       With(IF init_node.type = "NoNode" THEN <<>> ELSE _expr_to_source(init_node, ctor),
            LAMBDA rhs :
       <<"s", "e", "l", "f", ".">> \o name
       \o (IF py_type # <<>> /\ py_type # <<"N", "o", "n", "e">> THEN <<":", " ">> \o py_type \o <<" ">> ELSE <<>>)
       \o <<"=", " ">> \o (IF rhs # <<>> THEN rhs ELSE DefaultOrNone(py_type))))

_field_is_assigned_in_body(field_node, body_lines) ==
    LET name == LastWord(field_node.value)
    IN /\ name # <<>>
       /\ \E i \in 1..Len(body_lines) : Contains(body_lines[i], <<"s", "e", "l", "f", ".">> \o name \o <<" ", "=">>)

\* (name, type) of every parameter of a constructor
_ctor_params_info(ctor_node) ==
    LET params == SelectSeq(ctor_node.children, IsParam)
        info(p) == LET pp == split(Strip(p.value))
                   IN IF Len(pp) >= 2
                      THEN <<pp[Len(pp)], map_java_type_to_py(JoinButLast(pp))>>
                      ELSE <<IF pp # <<>> THEN pp[Len(pp)] ELSE <<"a", "r", "g">>, <<"A", "n", "y">>>>
    IN [i \in 1..Len(params) |-> info(params[i])]

\* ln[:len(ln) - len(ln.lstrip())]
LeadingSpace(ln) == SubSeq(ln, 1, Len(ln) - Len(LStrip(ln)))

\* lines without the line at index i (from 1)
DeleteAt(lines, i) == SubSeq(lines, 1, i - 1) \o SubSeq(lines, i + 1, Len(lines))

_render_init_with_injection(header, body_src, instance_fields, lvl, ctor) ==
    With(IF splitlines(body_src) # <<>> THEN splitlines(body_src)
         ELSE <<indent(lvl) \o <<"d", "e", "f", " ", "_", "_", "i", "n", "i", "t", "_", "_", "(", "s", "e", "l", "f", ")", ":">>, indent(lvl) \o INDENT_STR \o <<"p", "a", "s", "s">>>>,
         LAMBDA lines0 :
    LET body == {i \in 2..Len(lines0) : Strip(lines0[i]) # <<>>}
        first_body_idx == IF body = {} THEN 0 ELSE First(body)
        body_indent == IF body = {} THEN indent(lvl) \o INDENT_STR
                       ELSE LeadingSpace(lines0[first_body_idx])
        first_stmt == IF body = {} THEN <<>> ELSE Strip(lines0[first_body_idx])
        is_delegating == \/ HasPrefix(first_stmt, <<"s", "e", "l", "f", ".", "_", "_", "i", "n", "i", "t", "_", "_", "(">>)
                         \/ HasPrefix(first_stmt, <<"s", "u", "p", "e", "r", "(", ")", ".", "_", "_", "i", "n", "i", "t", "_", "_", "(">>)
        lines == IF ~is_delegating /\ body # {} /\ first_stmt = <<"p", "a", "s", "s">>
                 THEN DeleteAt(lines0, first_body_idx) ELSE lines0
        rest == IF body = {} THEN <<>> ELSE SubSeq(lines, first_body_idx, Len(lines))
        missing == SelectSeq(instance_fields,
                             LAMBDA f : ~_field_is_assigned_in_body(f, rest))
        injected == IF is_delegating THEN <<>>
                    ELSE [i \in 1..Len(missing) |->
                             body_indent \o _field_as_instance_assignment(missing[i], ctor)]
    IN JoinLines(<<header>> \o injected \o Tail(lines)))

\* the header and the text of a constructor
_render_ctor_string(ctor_node, lvl) ==
    LET children == SkipModifiers(ctor_node.children)
        param_parts == ParamParts(SelectSeq(children, IsParam))
        body_nodes == SelectSeq(children, NotParam)
        header == indent(lvl) \o <<"d", "e", "f", " ", "_", "_", "i", "n", "i", "t", "_", "_", "(", "s", "e", "l", "f">>
                  \o (IF param_parts # <<>> THEN <<",", " ">> ELSE <<>>)
                  \o JoinComma(param_parts) \o <<")", ":">>
        RECURSIVE Lines(_)
        Lines(rendered) ==
            IF rendered = <<>> THEN <<>>
            ELSE splitlines(Head(rendered)) \o Lines(Tail(rendered))
        body_lines == IF body_nodes = <<>> THEN <<indent(lvl + 1) \o <<"p", "a", "s", "s">>>>
                      ELSE Lines(Translations(body_nodes, lvl + 1, TRUE))
    IN <<header, header \o <<"\n">> \o JoinLines(body_lines)>>

_build_init_header_from_params(params, min_arity, class_indent) ==
    LET typed(p) == p[2] # <<>> /\ p[2] # <<"N", "o", "n", "e">>
        item(idx) ==
            LET p == params[idx]
            IN IF idx - 1 >= min_arity
               THEN p[1] \o (IF typed(p) THEN <<":", " ">> \o p[2] ELSE <<>>)
                    \o <<" ", "=", " ">> \o default_for_type(p[2])
               ELSE p[1] \o (IF typed(p) THEN <<":", " ">> \o p[2] ELSE <<>>)
        items == [idx \in 1..Len(params) |-> item(idx)]
    IN class_indent \o <<"d", "e", "f", " ", "_", "_", "i", "n", "i", "t", "_", "_", "(", "s", "e", "l", "f">>
       \o (IF items # <<>> THEN <<",", " ">> \o JoinComma(items) ELSE <<>>) \o <<")", ":">>

PrimaryFirstDeclared(ctors) == ctors[1]

\* the first constructor with the most parameters
Primary(ctors) ==
    ctors[First({i \in 1..Len(ctors) : \A j \in 1..Len(ctors) : Arity(ctors[j]) <= Arity(ctors[i])})]

_merge_constructors_to_single_init(class_indent, ctors, instance_fields, lvl, ctor) ==
    LET primary == Primary(ctors)
        min_arity == First({Arity(ctors[i]) : i \in 1..Len(ctors)})
    IN _render_init_with_injection(
           _build_init_header_from_params(_ctor_params_info(primary), min_arity, class_indent),
           _render_ctor_string(primary, lvl)[2], instance_fields, lvl, ctor)

\* s.split(c)
RECURSIVE SplitFrom(_, _, _)
SplitFrom(s, c, from) ==
    LET hits == {i \in from..Len(s) : s[i] = c}
    IN IF hits = {} THEN <<SubSeq(s, from, Len(s))>>
       ELSE <<SubSeq(s, from, First(hits) - 1)>> \o SplitFrom(s, c, First(hits) + 1)

SplitOn(s, c) == SplitFrom(s, c, 1)

\* [b.strip() for b in s.split(",") if b.strip()]
Stripped(s) ==
    LET parts == SplitOn(s, ",")
    IN NonEmpty([i \in 1..Len(parts) |-> Strip(parts[i])])

ToUpper(s) ==
    [i \in 1..Len(s) |->
        IF \E k \in 1..26 : Lower[k] = s[i]
        THEN Upper[CHOOSE k \in 1..26 : Lower[k] = s[i]] ELSE s[i]]

\* the __init__ of a class: of its one constructor, of its constructors
\* merged, or of its instance fields alone
InitChunk(ctors, instance_fields, lvl, ctor) ==
    IF Len(ctors) = 1
    THEN With(_render_ctor_string(ctors[1], lvl)[2], LAMBDA ctor_text :
         <<_render_init_with_injection(splitlines(ctor_text)[1], ctor_text,
                                       instance_fields, lvl, ctor)>>)
    ELSE IF ctors # <<>>
    THEN <<_merge_constructors_to_single_init(indent(lvl), ctors, instance_fields, lvl, ctor)>>
    ELSE IF instance_fields # <<>>
    THEN <<JoinLines(<<indent(lvl) \o <<"d", "e", "f", " ", "_", "_", "i", "n", "i", "t", "_", "_", "(", "s", "e", "l", "f", ")", ":">>>>
                     \o [i \in 1..Len(instance_fields) |->
                            indent(lvl) \o INDENT_STR
                            \o _field_as_instance_assignment(instance_fields[i], ctor)])>>
    ELSE <<>>

_trans_class_decl(node, lvl, ctor) ==
    LET children0 == SkipModifiers(node.children)
        based == children0 # <<>> /\ children0[1].type = "Base"
        bases == IF based THEN Stripped(children0[1].value) ELSE <<>>
        children == IF based THEN Tail(children0) ELSE children0
        header == <<"c", "l", "a", "s", "s", " ">> \o node.value
                  \o (IF bases # <<>> THEN <<"(">> \o JoinComma(bases) \o <<")">> ELSE <<>>) \o <<":">>
        split3 == _split_fields_ctors_others(children)
        split2 == _split_static_instance_fields(split3.fields)
    IN IF split3.ctors = <<>> /\ split3.others = <<>> /\ split3.fields = <<>>
       THEN header \o <<"\n">> \o INDENT_STR \o <<"p", "a", "s", "s">>
       ELSE header \o <<"\n">>
            \o JoinLines(Translations(split2.static_fields, lvl + 1, ctor)
                         \o InitChunk(split3.ctors, split2.instance_fields, lvl + 1, ctor)
                         \o Translations(split3.others, lvl + 1, ctor))

_trans_modifiers(node) == <<"#", " ", "m", "o", "d", "i", "f", "i", "e", "r", "s", ":", " ">> \o node.value

_trans_param(node) == node.value

\* the header and the body of a method
_trans_method_decl(node, lvl, ctor) ==
    LET modifiers == IF node.children # <<>> /\ node.children[1].type = "Modifiers"
                        /\ node.children[1].value # <<>>
                     THEN SplitOn(node.children[1].value, ",") ELSE <<>>
        children == SkipModifiers(node.children)
        param_items == ParamParts(SelectSeq(children, IsParam))
        body_nodes == SelectSeq(children, NotParam)
        parts == split(node.value)
        method_name == IF Len(parts) >= 2 THEN parts[2]
                       ELSE IF Len(parts) = 1 THEN parts[1] ELSE <<"m", "e", "t", "h", "o", "d">>
        is_static == \E i \in 1..Len(modifiers) : ToUpper(Strip(modifiers[i])) = <<"S", "T", "A", "T", "I", "C">>
        param_list == IF is_static THEN JoinComma(param_items)
                      ELSE <<"s", "e", "l", "f">> \o (IF param_items # <<>>
                                      THEN <<",", " ">> \o JoinComma(param_items) ELSE <<>>)
        ret_py == IF Len(parts) >= 2 THEN map_java_type_to_py(parts[1]) ELSE <<"N", "o", "n", "e">>
        header == <<"d", "e", "f", " ">> \o method_name \o <<"(">> \o param_list \o <<")", " ", "-", ">", " ">> \o ret_py \o <<":">>
    IN JoinLines((IF is_static THEN <<indent(lvl) \o <<"@", "s", "t", "a", "t", "i", "c", "m", "e", "t", "h", "o", "d">>>> ELSE <<>>)
                 \o <<indent(lvl) \o header>>
                 \o (IF body_nodes = <<>> THEN <<indent(lvl + 1) \o <<"p", "a", "s", "s">>>>
                     ELSE NonEmpty(Translations(body_nodes, lvl + 1, ctor))))

_trans_constructor_decl(node, lvl, ctor) ==
    LET children == SkipModifiers(node.children)
        param_parts == ParamParts(SelectSeq(children, IsParam))
        body_nodes == SelectSeq(children, NotParam)
        header == <<"d", "e", "f", " ", "_", "_", "i", "n", "i", "t", "_", "_", "(", "s", "e", "l", "f">> \o (IF param_parts # <<>> THEN <<",", " ">> ELSE <<>>)
                  \o JoinComma(param_parts) \o <<")", ":">>
        RECURSIVE Lines(_)
        Lines(rendered) ==
            IF rendered = <<>> THEN <<>>
            ELSE splitlines(Head(rendered)) \o Lines(Tail(rendered))
    IN indent(lvl) \o header \o <<"\n">>
       \o JoinLines(IF body_nodes = <<>> THEN <<indent(lvl + 1) \o <<"p", "a", "s", "s">>>>
                    ELSE Lines(Translations(body_nodes, lvl + 1, TRUE)))

\* every line of rendered that does not begin with the indent gets it
Indented(rendered, lvl) ==
    LET lines == splitlines(rendered)
    IN [i \in 1..Len(lines) |->
           IF HasPrefix(lines[i], indent(lvl)) THEN lines[i] ELSE indent(lvl) \o lines[i]]

RECURSIVE BlockLines(_, _)
BlockLines(rendered, lvl) ==
    IF rendered = <<>> THEN <<>>
    ELSE Indented(Head(rendered), lvl) \o BlockLines(Tail(rendered), lvl)

_trans_block(node, lvl, ctor) ==
    IF node.children = <<>> THEN indent(lvl) \o <<"p", "a", "s", "s">>
    ELSE JoinLines(BlockLines(Translations(node.children, lvl, ctor), lvl))

\* the lines of the else chain of an if statement
RECURSIVE ElseLines(_, _, _)
ElseLines(next_else, lvl, ctor) ==
    IF next_else.type = "NoNode" THEN <<>>
    ELSE IF next_else.type = "IfStatement"
    THEN <<indent(lvl) \o <<"e", "l", "i", "f", " ">> \o _expr_to_source(next_else.vnode[1], ctor) \o <<":">>>>
         \o (IF Child(next_else, 1).type = "NoNode" THEN <<>>
             ELSE Translations(next_else.children[1].children, lvl + 1, ctor))
         \o ElseLines(Child(next_else, 2), lvl, ctor)
    ELSE IF next_else.type = "Else"
    THEN <<indent(lvl) \o <<"e", "l", "s", "e", ":">>>> \o Translations(next_else.children, lvl + 1, ctor)
    ELSE <<_translate_node(next_else, lvl, ctor)>>

_trans_if_statement(node, lvl, ctor) ==
    JoinLines(<<indent(lvl) \o <<"i", "f", " ">> \o _expr_to_source(node.vnode[1], ctor) \o <<":">>>>
              \o (IF Child(node, 1).type = "NoNode" THEN <<>>
                  ELSE Translations(node.children[1].children, lvl + 1, ctor))
              \o ElseLines(Child(node, 2), lvl, ctor))

NotNone(c) == c.type # "NoNode"

_trans_then(node, lvl, ctor) ==
    JoinLines(Translations(SelectSeq(node.children, NotNone), lvl, ctor))

_trans_else(node, lvl, ctor) ==
    JoinLines(Translations(SelectSeq(node.children, NotNone), lvl, ctor))

\* the statements of a clause one level in, or pass when it has none
ClauseBody(stmts, lvl, ctor) ==
    IF stmts # <<>> THEN Translations(stmts, lvl + 1, ctor) ELSE <<indent(lvl + 1) \o <<"p", "a", "s", "s">>>>

\* the header and the body of every Catch child
RECURSIVE CatchLines(_, _, _)
CatchLines(children, lvl, ctor) ==
    IF children = <<>> THEN <<>>
    ELSE IF Head(children).type # "Catch" THEN CatchLines(Tail(children), lvl, ctor)
    ELSE LET ch == Head(children)
             parts == split(ch.value)
         IN <<indent(lvl) \o <<"e", "x", "c", "e", "p", "t", " ">>
              \o (IF parts # <<>> THEN parts[1] ELSE <<"E", "x", "c", "e", "p", "t", "i", "o", "n">>)
              \o (IF Len(parts) >= 2 THEN <<" ", "a", "s", " ">> \o parts[2] ELSE <<>>) \o <<":">>>>
            \o ClauseBody(ch.children, lvl, ctor)
            \o CatchLines(Tail(children), lvl, ctor)

_trans_try_statement(node, lvl, ctor) ==
    LET try_block == Child(node, 1)
        last == IF node.children # <<>> THEN node.children[Len(node.children)] ELSE NoNode
    IN JoinLines(<<indent(lvl) \o <<"t", "r", "y", ":">>>>
                 \o (IF try_block.type # "NoNode"
                     THEN Translations(try_block.children, lvl + 1, ctor)
                     ELSE <<indent(lvl + 1) \o <<"p", "a", "s", "s">>>>)
                 \o CatchLines(IF node.children # <<>> THEN Tail(node.children) ELSE <<>>,
                               lvl, ctor)
                 \o (IF last.type = "Finally"
                     THEN <<indent(lvl) \o <<"f", "i", "n", "a", "l", "l", "y", ":">>>> \o ClauseBody(last.children, lvl, ctor)
                     ELSE <<>>))

_trans_return(node, lvl, ctor) ==
    IF node.children # <<>>
    THEN indent(lvl) \o <<"r", "e", "t", "u", "r", "n", " ">> \o _expr_to_source(node.children[1], ctor)
    ELSE indent(lvl) \o <<"r", "e", "t", "u", "r", "n">>

_trans_break(lvl) == indent(lvl) \o <<"b", "r", "e", "a", "k">>

_trans_continue(lvl) == indent(lvl) \o <<"c", "o", "n", "t", "i", "n", "u", "e">>

\* "\n".join(self.indent() + line for line in src.splitlines())
IndentLines(src, lvl) ==
    LET lines == splitlines(src)
    IN JoinLines([i \in 1..Len(lines) |-> indent(lvl) \o lines[i]])

_trans_expr_stmt(node, lvl, ctor) ==
    IF node.children # <<>> THEN IndentLines(_expr_to_source(node.children[1], ctor), lvl)
    ELSE indent(lvl) \o <<"p", "a", "s", "s">>

_trans_call(node, lvl, ctor) == IndentLines(_expr_to_source(node, ctor), lvl)

_trans_member(node, ctor) == _expr_to_source(Child(node, 1), ctor) \o <<".">> \o node.value

_trans_identifier(node) == node.value

_trans_literal(node) == _format_literal_token(node.value)

_trans_binaryop(node, ctor) == _expr_to_source(node, ctor)

\* the value of an Unknown node as text: "type:text" of the token the
\* parser could not place, or "new-array"
UnknownValue(node) ==
    IF node.value[1] = "new-array" THEN <<"n", "e", "w", "-", "a", "r", "r", "a", "y">>
    ELSE TypeName(node.value[1]) \o <<":">> \o node.value[2]

_trans_unknown(node, lvl) == indent(lvl) \o <<"#", " ", "U", "n", "k", "n", "o", "w", "n", " ", "n", "o", "d", "e", ":", " ">> \o UnknownValue(node)

assign_op_map ==
    [t \in {"ADD"} |-> <<"+", "=">>] @@ [t \in {"SUB"} |-> <<"-", "=">>] @@ [t \in {"MUL"} |-> <<"*", "=">>] @@
    [t \in {"DIV"} |-> <<"/", "=">>] @@ [t \in {"MOD"} |-> <<"%", "=">>] @@ [t \in {"BITAND"} |-> <<"&", "=">>] @@
    [t \in {"BITOR"} |-> <<"|", "=">>] @@ [t \in {"CARET"} |-> <<"^", "=">>] @@
    [t \in {"LSHIFT"} |-> <<"<", "<", "=">>] @@ [t \in {"RSHIFT"} |-> <<">", ">", "=">>]

_trans_assign(node, lvl, ctor) ==
    IF Len(node.children) < 2 THEN indent(lvl) \o <<"#", " ", "m", "a", "l", "f", "o", "r", "m", "e", "d", " ", "a", "s", "s", "i", "g", "n">>
    ELSE LET left == node.children[1]
             right == node.children[2]
             left_src == (IF ctor /\ left.type = "Identifier" THEN <<"s", "e", "l", "f", ".">> ELSE <<>>)
                         \o _expr_to_source(left, ctor)
             augmented ==
                 /\ right.type = "BinaryOp" /\ Len(right.children) = 2
                 /\ left.type = "Identifier" /\ right.children[1].type = "Identifier"
                 /\ right.children[1].value = left.value
                 /\ right.value \in DOMAIN assign_op_map
         IN IF augmented
            THEN indent(lvl) \o left_src \o <<" ">> \o assign_op_map[right.value] \o <<" ">>
                 \o _expr_to_source(right.children[2], ctor)
            ELSE indent(lvl) \o left_src \o <<" ", "=", " ">> \o _expr_to_source(right, ctor)

\* no text: the None of the for helpers
NoText == [none |-> TRUE, text |-> <<>>]
Text(s) == [none |-> FALSE, text |-> s]

\* the loop variable and the source of its first value
_get_for_init_info(init_node, ctor) ==
    IF init_node.type = "FieldDecl"
    THEN LET parts == split(init_node.value)
             hits == {i \in 1..Len(init_node.children) : init_node.children[i].type = "Init"}
             init_child == IF hits = {} THEN NoNode
                           ELSE Child(init_node.children[First(hits)], 1)
         IN [var_name |-> IF parts # <<>> THEN Text(parts[Len(parts)]) ELSE NoText,
             start_src |-> IF init_child.type # "NoNode"
                           THEN Text(_expr_to_source(init_child, ctor)) ELSE NoText]
    ELSE IF init_node.type = "Assign" /\ Child(init_node, 1).type = "Identifier"
    THEN [var_name |-> Text(init_node.children[1].value),
          start_src |-> Text(_expr_to_source(Child(init_node, 2), ctor))]
    ELSE [var_name |-> NoText, start_src |-> NoText]

\* int(text) of a text int() accepts
IntOf(s) ==
    LET t == Strip(s)
        digits == SelectSeq(Unsigned(t), IsDigit)
    IN IF t[1] = "-" THEN 0 - DigitsVal(digits) ELSE DigitsVal(digits)

IntStep(n) == [kind |-> "int", n |-> n, text |-> <<>>]
SrcStep(s) == [kind |-> "src", n |-> 0, text |-> s]
NoStep == [kind |-> "None", n |-> 0, text |-> <<>>]

\* the step of the update clause: an int, a source text, or None
_get_for_update_step(update_node, ctor) ==
    LET right == Child(update_node, 2)
        literal == Child(right, 2)
        is_int == literal.type \in {"Literal", "Identifier"} /\ IsPyInt(literal.value)
    IN IF update_node.type = "NoNode" THEN NoStep
       ELSE IF update_node.type \in {"PostfixOp", "PrefixOp"} /\ update_node.value = "INC"
       THEN IntStep(1)
       ELSE IF update_node.type \in {"PostfixOp", "PrefixOp"} /\ update_node.value = "DEC"
       THEN IntStep(-1)
       ELSE IF update_node.type = "Assign" /\ right.type = "BinaryOp"
               /\ right.value \in {"ADD", "SUB"} /\ is_int
       THEN IntStep(IF right.value = "ADD" THEN IntOf(literal.value)
                    ELSE 0 - IntOf(literal.value))
       ELSE SrcStep(_expr_to_source(update_node, ctor))

\* the source of the bound of the condition and its operator
_get_for_condition_end(cond_node, var_name, ctor) ==
    IF /\ cond_node.type = "BinaryOp"
       /\ \/ var_name.none
          \/ cond_node.children[1].type = "Identifier"
             /\ cond_node.children[1].value = var_name.text
    THEN [end_src |-> Text(_expr_to_source(cond_node.children[2], ctor)),
          cond_op |-> cond_node.value]
    ELSE [end_src |-> NoText, cond_op |-> "None"]

\* a variant that takes the bound of <= as it stands
end_expr_exclusive(end_src, cond_op) ==
    IF cond_op \in {"LE", "LT"} THEN Text(end_src) ELSE NoText

\* the end of the range for the operator of the condition, or None
end_expr(end_src, cond_op) ==
    IF cond_op = "LE" THEN Text(<<"(">> \o end_src \o <<")", " ", "+", " ", "1">>)
    ELSE IF cond_op = "LT" THEN Text(end_src)
    ELSE NoText

_block_inside_as_lines(body, lvl, ctor) == _translate_node(body, lvl + 1, ctor)

\* the for statement as a loop over a range
ForRange(var_name, start_src, end, step, body, lvl, ctor) ==
    indent(lvl) \o <<"f", "o", "r", " ">> \o var_name \o <<" ", "i", "n", " ", "r", "a", "n", "g", "e", "(">>
    \o (IF start_src.none THEN <<"0">> ELSE start_src.text) \o <<",", " ">> \o end
    \o (IF step = 1 THEN <<>> ELSE <<",", " ">> \o IntText(step)) \o <<")", ":", "\n">>
    \o _block_inside_as_lines(body, lvl, ctor)

\* the for statement as a while loop
ForWhile(init, condition, update, body, lvl, ctor) ==
    JoinLines(
        (IF init.type = "NoNode" THEN <<>>
         ELSE IF init.type = "FieldDecl" THEN <<_trans_field_decl(init, lvl, ctor)>>
         ELSE LET lines == splitlines(_expr_to_source(init, ctor))
              IN [i \in 1..Len(lines) |-> indent(lvl) \o lines[i]])
        \o <<indent(lvl) \o <<"w", "h", "i", "l", "e", " ">>
             \o (IF condition.type = "NoNode" THEN <<"T", "r", "u", "e">>
                 ELSE _expr_to_source(condition, ctor)) \o <<":">>>>
        \o <<_translate_node(body, lvl + 1, ctor)>>
        \o (IF update.type = "NoNode" THEN <<>>
            ELSE LET lines == splitlines(_expr_to_source(update, ctor))
                 IN [i \in 1..Len(lines) |-> indent(lvl + 1) \o lines[i]]))

_trans_for_statement(node, lvl, ctor) ==
    LET children == node.children
    IN IF Len(children) = 4
       THEN With(_get_for_init_info(children[1], ctor), LAMBDA info :
            With(_get_for_condition_end(children[2], info.var_name, ctor), LAMBDA cond :
            With(_get_for_update_step(children[3], ctor), LAMBDA step :
            With(IF cond.end_src.none THEN NoText
                 ELSE end_expr(cond.end_src.text, cond.cond_op), LAMBDA end :
            IF /\ ~info.var_name.none /\ info.var_name.text # <<>>
               /\ ~end.none /\ step.kind = "int"
            THEN ForRange(info.var_name.text, info.start_src, end.text, step.n,
                          children[4], lvl, ctor)
            ELSE ForWhile(children[1], children[2], children[3], children[4], lvl, ctor)))))
       ELSE IF Len(children) = 3
       THEN JoinLines(<<indent(lvl) \o <<"f", "o", "r", " ">> \o _expr_to_source(children[1], ctor)
                        \o <<" ", "i", "n", " ">> \o _expr_to_source(children[2], ctor) \o <<":">>,
                        _translate_node(children[3], lvl + 1, ctor)>>)
       ELSE indent(lvl) \o <<"#", " ", "U", "n", "s", "u", "p", "p", "o", "r", "t", "e", "d", " ", "f", "o", "r", "-", "s", "t", "a", "t", "e", "m", "e", "n", "t">>

_trans_while_statement(node, lvl, ctor) ==
    JoinLines(<<indent(lvl) \o <<"w", "h", "i", "l", "e", " ">> \o _expr_to_source(node.children[1], ctor) \o <<":">>,
                _translate_node(node.children[2], lvl + 1, ctor)>>)

_trans_do_while_statement(node, lvl, ctor) ==
    JoinLines(<<indent(lvl) \o <<"w", "h", "i", "l", "e", " ", "T", "r", "u", "e", ":">>,
                _translate_node(node.children[2], lvl + 1, ctor),
                indent(lvl + 1) \o <<"i", "f", " ", "n", "o", "t", " ", "(">> \o _expr_to_source(node.children[1], ctor) \o <<")", ":">>,
                indent(lvl + 2) \o <<"b", "r", "e", "a", "k">>>>)

RECURSIVE CaseLines(_, _, _)
CaseLines(cases, lvl, ctor) ==
    IF cases = <<>> THEN <<>>
    ELSE splitlines(_translate_node(Head(cases), lvl, ctor)) \o CaseLines(Tail(cases), lvl, ctor)

_trans_switch_statement(node, lvl, ctor) ==
    IF node.children = <<>> THEN indent(lvl) \o <<"#", " ", "e", "m", "p", "t", "y", " ", "s", "w", "i", "t", "c", "h">>
    ELSE JoinLines(<<indent(lvl) \o <<"m", "a", "t", "c", "h", " ">> \o _expr_to_source(node.children[1], ctor) \o <<":">>>>
                   \o CaseLines(Tail(node.children), lvl + 1, ctor))

KeepsBreak(s) == TRUE

NotBreak(s) == s.type # "Break"

_trans_case_label(node, lvl, ctor) ==
    IF node.children = <<>> THEN indent(lvl) \o <<"#", " ", "e", "m", "p", "t", "y", " ", "c", "a", "s", "e">>
    ELSE JoinLines(<<indent(lvl) \o <<"c", "a", "s", "e", " ">> \o _expr_to_source(node.children[1], ctor) \o <<":">>>>
                   \o NonEmpty(Translations(SelectSeq(Tail(node.children), NotBreak),
                                            lvl + 1, ctor)))

_trans_default_label(node, lvl, ctor) ==
    JoinLines(<<indent(lvl) \o <<"c", "a", "s", "e", " ", "_", ":">>>>
              \o NonEmpty(Translations(SelectSeq(node.children, NotBreak), lvl + 1, ctor)))

_trans_postfixop(node, lvl, ctor) ==
    indent(lvl) \o PostfixSource(node.value, _expr_to_source(node.children[1], ctor))

_trans_prefixop(node, lvl, ctor) ==
    indent(lvl) \o PrefixSource(node.value, _expr_to_source(node.children[1], ctor))

\* the kinds of node the dispatch table of _translate_node has an entry for
dispatch ==
    {"CompilationUnit", "ClassDecl", "Modifiers", "MethodDecl", "ConstructorDecl", "Param",
     "FieldDecl", "Init", "Block", "IfStatement", "Then", "Else", "Assign", "ExprStmt",
     "Return", "Call", "Member", "Identifier", "Literal", "BinaryOp", "Unknown",
     "ForStatement", "WhileStatement", "DoWhileStatement", "Break", "Continue",
     "SwitchStatement", "CaseLabel", "DefaultLabel", "PostfixOp", "PrefixOp",
     "TryStatement", "Base"}

_translate_node(node, lvl, ctor) ==
    LET t == node.type
    IN CASE t = "NoNode" -> <<>>
         [] t = "CompilationUnit" -> _trans_compilation_unit(node, lvl, ctor)
         [] t = "ClassDecl" -> _trans_class_decl(node, lvl, ctor)
         [] t = "Modifiers" -> _trans_modifiers(node)
         [] t = "MethodDecl" -> _trans_method_decl(node, lvl, ctor)
         [] t = "ConstructorDecl" -> _trans_constructor_decl(node, lvl, ctor)
         [] t = "Param" -> _trans_param(node)
         [] t = "FieldDecl" -> _trans_field_decl(node, lvl, ctor)
         [] t = "Init" -> _trans_init_wrapper(node, ctor)
         [] t = "Block" -> _trans_block(node, lvl, ctor)
         [] t = "IfStatement" -> _trans_if_statement(node, lvl, ctor)
         [] t = "Then" -> _trans_then(node, lvl, ctor)
         [] t = "Else" -> _trans_else(node, lvl, ctor)
         [] t = "Assign" -> _trans_assign(node, lvl, ctor)
         [] t = "ExprStmt" -> _trans_expr_stmt(node, lvl, ctor)
         [] t = "Return" -> _trans_return(node, lvl, ctor)
         [] t = "Call" -> _trans_call(node, lvl, ctor)
         [] t = "Member" -> _trans_member(node, ctor)
         [] t = "Identifier" -> _trans_identifier(node)
         [] t = "Literal" -> _trans_literal(node)
         [] t = "BinaryOp" -> _trans_binaryop(node, ctor)
         [] t = "Unknown" -> _trans_unknown(node, lvl)
         [] t = "ForStatement" -> _trans_for_statement(node, lvl, ctor)
         [] t = "WhileStatement" -> _trans_while_statement(node, lvl, ctor)
         [] t = "DoWhileStatement" -> _trans_do_while_statement(node, lvl, ctor)
         [] t = "Break" -> _trans_break(lvl)
         [] t = "Continue" -> _trans_continue(lvl)
         [] t = "SwitchStatement" -> _trans_switch_statement(node, lvl, ctor)
         [] t = "CaseLabel" -> _trans_case_label(node, lvl, ctor)
         [] t = "DefaultLabel" -> _trans_default_label(node, lvl, ctor)
         [] t = "PostfixOp" -> _trans_postfixop(node, lvl, ctor)
         [] t = "PrefixOp" -> _trans_prefixop(node, lvl, ctor)
         [] t = "TryStatement" -> _trans_try_statement(node, lvl, ctor)
         [] t = "Base" -> <<>>
         [] OTHER -> JoinLines(NonEmpty(Translations(node.children, lvl, ctor)))

\* Translator(indent_str).translate(ast) of a new translator
translate(root) == _translate_node(root, 0, FALSE)

-----------------------------------------------------------------------------
(* The translator's specification: translate is called once on an AST,     *)
(* either the AST the parser makes of a three-clause loop over literal     *)
(* bounds, or an AST put together from nodes of kinds with and without an  *)
(* entry in the dispatch table.                                            *)

MaxBound == 5
MaxDepth == 3

CondOps == {<<"<">>, <<"<", "=">>, <<">">>}
Updates == {<<"i", "+", "+">>, <<"i", "-", "-">>, <<"+", "+", "i">>}

\* for (int i = S; i op E; update) { }
ForSource(S, op, E, update) ==
    <<"f", "o", "r", " ", "(", "i", "n", "t", " ", "i", " ", "=", " ">> \o NatText(S) \o <<";", " ", "i", " ">> \o op \o <<" ">> \o NatText(E) \o <<";", " ">>
    \o update \o <<")", " ", "{", " ", "}">>

LeafNodes == {ASTNode("Empty", "None", <<>>), ASTNode("Break", "None", <<>>),
              Literal(<<"1">>), Identifier(<<"x">>)}
WrapKinds == {"Block", "ExprStmt", "TryBlock", "ArrayInit", "Label"}

RECURSIVE Depth(_)
Depth(n) ==
    LET below == {Depth(n.children[i]) : i \in 1..Len(n.children)}
    IN IF below = {} THEN 1 ELSE 1 + CHOOSE d \in below : \A e \in below : e <= d

TransInit == TransIdle /\ OptIdle /\ LexIdle /\ ParseIdle /\ MainIdle /\ SemIdle /\ StreamIdle /\ OwnIdle /\ WalkIdle

\* the statement is written, read by the lexer and parsed
WriteFor ==
    /\ ast.type = "NoNode" /\ ~python_code.done
    /\ \E S \in 0..MaxBound, E \in 0..MaxBound, op \in CondOps, update \in Updates :
           /\ java' = ForSource(S, op, E, update)
           /\ \E toks \in {_fill_tokens(ForSource(S, op, E, update), 0)} :
                  /\ parse_statement(toks, 0).st = "ok"
                  /\ ast' = parse_statement(toks, 0).val
    /\ UNCHANGED <<python_code, notTransVars>>

MaxArity == 2
CtorCounts == {2, 3}
ParamTypes == <<<<"i", "n", "t">>, <<"S", "t", "r", "i", "n", "g">>, <<"b", "o", "o", "l", "e", "a", "n">>, <<"d", "o", "u", "b", "l", "e">>>>
ParamNames == <<<<"a">>, <<"b">>, <<"c">>, <<"d">>>>
PyTypes == <<<<"i", "n", "t">>, <<"s", "t", "r">>, <<"b", "o", "o", "l">>, <<"f", "l", "o", "a", "t">>>>
PyDefaults == <<<<"0">>, <<"\"", "\"">>, <<"F", "a", "l", "s", "e">>, <<"0", ".", "0">>>>
CtorBodies == {<<"{", " ", "}">>, <<"{", " ", "t", "h", "i", "s", "(", ")", ";", " ", "}">>, <<"{", " ", "t", "h", "i", "s", ".", "n", " ", "=", " ", "1", ";", " ", "}">>}

\* a constructor is <<number of parameters, shift of its parameter types>>
CtorShapes == {<<0, 0>>} \cup ((1..MaxArity) \X {0, 1})
TypeAt(c, i) == ((i - 1 + c[2]) % 4) + 1
NameAt(i) == ParamNames[((i - 1) % 4) + 1]

\* A(T1 a, T2 b) body
CtorSource(c, body) ==
    <<"A", "(">> \o JoinComma([i \in 1..c[1] |-> ParamTypes[TypeAt(c, i)] \o <<" ">> \o NameAt(i)])
    \o <<")", " ">> \o body

RECURSIVE CtorSources(_, _)
CtorSources(cs, body) ==
    IF cs = <<>> THEN <<>>
    ELSE CtorSource(Head(cs), body) \o <<" ">> \o CtorSources(Tail(cs), body)

\* class A { int n; A(...) body A(...) body }
ClassSource(cs, body) == <<"c", "l", "a", "s", "s", " ", "A", " ", "{", " ", "i", "n", "t", " ", "n", ";", " ">> \o CtorSources(cs, body) \o <<"}">>

CtorLists == UNION {[1..k -> CtorShapes] : k \in CtorCounts}

\* the class is written, read by the lexer and parsed
WriteCtors ==
    /\ ast.type = "NoNode" /\ ~python_code.done
    /\ \E cs \in CtorLists, body \in CtorBodies :
           /\ java' = ClassSource(cs, body)
           /\ \E r \in {parse(_fill_tokens(ClassSource(cs, body), 0))} :
                  /\ r.st = "ok"
                  /\ ast' = r.val
    /\ UNCHANGED <<python_code, notTransVars>>

MaxArms == 2
StmtCounts == {0, 1, 2}

\* an arm is <<it is the default arm, number of statements, it ends in break>>
ArmShapes == BOOLEAN \X StmtCounts \X BOOLEAN

\* the calls an arm makes: the arm at position p calls the p-th name first
RECURSIVE CallsSource(_, _)
CallsSource(k, n) ==
    IF n = 0 THEN <<>> ELSE <<" ">> \o NameAt(k) \o <<"(", ")", ";">> \o CallsSource(k + 1, n - 1)

\* case <position>: a(); b(); break;
ArmSource(arm, position) ==
    (IF arm[1] THEN <<"d", "e", "f", "a", "u", "l", "t", ":">> ELSE <<"c", "a", "s", "e", " ">> \o NatText(position) \o <<":">>)
    \o CallsSource(position, arm[2]) \o (IF arm[3] THEN <<" ", "b", "r", "e", "a", "k", ";">> ELSE <<>>)

RECURSIVE ArmsSource(_, _)
ArmsSource(arms, k) ==
    IF k > Len(arms) THEN <<>>
    ELSE ArmSource(arms[k], k) \o <<" ">> \o ArmsSource(arms, k + 1)

\* switch (x) { arms }
SwitchSource(arms) == <<"s", "w", "i", "t", "c", "h", " ", "(", "x", ")", " ", "{", " ">> \o ArmsSource(arms, 1) \o <<"}">>

ArmLists == UNION {[1..k -> ArmShapes] : k \in 1..MaxArms}

\* the statement is written, read by the lexer and parsed
WriteSwitch ==
    /\ ast.type = "NoNode" /\ ~python_code.done
    /\ \E arms \in ArmLists :
           /\ java' = SwitchSource(arms)
           /\ \E r \in {parse_statement(_fill_tokens(SwitchSource(arms), 0), 0)} :
                  /\ r.st = "ok"
                  /\ ast' = r.val
    /\ UNCHANGED <<python_code, notTransVars>>

\* ASTNode(kind)
MakeNode ==
    /\ ast.type = "NoNode" /\ ~python_code.done
    /\ \E n \in LeafNodes : ast' = n
    /\ UNCHANGED <<java, python_code, notTransVars>>

\* ASTNode(kind, children=[ast])
WrapNode ==
    /\ ast.type # "NoNode" /\ ~python_code.done
    /\ java = <<>> /\ Depth(ast) < MaxDepth
    /\ \E kind \in WrapKinds : ast' = ASTNode(kind, "None", <<ast>>)
    /\ UNCHANGED <<java, python_code, notTransVars>>

Translate ==
    /\ ~python_code.done
    /\ python_code' = [done |-> TRUE, text |-> translate(ast)]
    /\ UNCHANGED <<java, ast, notTransVars>>

TransNext == WriteFor \/ WriteCtors \/ WriteSwitch \/ MakeNode \/ WrapNode \/ Translate

SpecTrans == TransInit /\ [][TransNext]_vars

\* the kinds of the nodes of a tree
RECURSIVE Kinds(_)
Kinds(n) ==
    {n.type} \cup UNION {Kinds(n.children[i]) : i \in 1..Len(n.children)}
             \cup UNION {Kinds(n.vnode[i]) : i \in 1..Len(n.vnode)}

\* C9: translating an AST that has a node of a kind without an entry in the
\* dispatch table gives text that is not empty: the node leaves a line.
C9_UnknownKindsDegrade ==
    python_code.done /\ Kinds(ast) \ (dispatch \cup {"NoNode"}) # {}
        => python_code.text # <<>>

\* the first line of a text
FirstLine(text) == IF splitlines(text) = <<>> THEN <<>> ELSE splitlines(text)[1]

\* the number an argument of range stands for: digits, or (digits) + 1
PyEval(src) ==
    IF AllDigits(src) THEN DigitsVal(src)
    ELSE DigitsVal(SubSeq(src, 2, Len(src) - 5)) + 1

\* the values v takes in "for v in range(a, b):"
LoopValues(line) ==
    LET open == First({i \in 1..Len(line) : line[i] = "("})
        comma == First({i \in 1..Len(line) : line[i] = ","})
        a == PyEval(SubSeq(line, open + 1, comma - 1))
        b == PyEval(SubSeq(line, comma + 2, Len(line) - 2))
    IN {n \in a..(b - 1) : TRUE}

\* C10: for (int i = S; i < E; i++) is rendered as for i in range(S, E): and
\* for (int i = S; i <= E; i++) as for i in range(S, (E) + 1):, so that i
\* takes the values S..E-1 and S..E.
C10_CountedLoopBounds ==
    \A S \in 0..MaxBound, E \in 0..MaxBound :
        /\ python_code.done /\ java = ForSource(S, <<"<">>, E, <<"i", "+", "+">>) =>
               /\ FirstLine(python_code.text)
                      = <<"f", "o", "r", " ", "i", " ", "i", "n", " ", "r", "a", "n", "g", "e", "(">> \o NatText(S) \o <<",", " ">> \o NatText(E) \o <<")", ":">>
               /\ LoopValues(FirstLine(python_code.text)) = S..(E - 1)
        /\ python_code.done /\ java = ForSource(S, <<"<", "=">>, E, <<"i", "+", "+">>) =>
               /\ FirstLine(python_code.text)
                      = <<"f", "o", "r", " ", "i", " ", "i", "n", " ", "r", "a", "n", "g", "e", "(">> \o NatText(S) \o <<",", " ", "(">> \o NatText(E) \o <<")", " ", "+", " ", "1", ")", ":">>
               /\ LoopValues(FirstLine(python_code.text)) = S..E

C10_Witness ==
    /\ python_code.done /\ java = ForSource(0, <<"<", "=">>, 5, <<"i", "+", "+">>)
    /\ python_code.text = <<"f", "o", "r", " ", "i", " ", "i", "n", " ", "r", "a", "n", "g", "e", "(", "0", ",", " ", "(", "5", ")", " ", "+", " ", "1", ")", ":", "\n", " ", " ", " ", " ", "p", "a", "s", "s">>

\* the lines of a text that define __init__
InitHeaders(text) == SelectSeq(splitlines(text), LAMBDA ln : Contains(ln, <<"d", "e", "f", " ", "_", "_", "i", "n", "i", "t", "_", "_", "(">>))

Least(S) == CHOOSE n \in S : \A m \in S : n <= m
Greatest(S) == CHOOSE n \in S : \A m \in S : m <= n

\* the Python type and the default value of a parameter type of ParamTypes
PyOf(java_type) == PyTypes[First({i \in 1..4 : ParamTypes[i] = java_type})]
PyDefaultOf(java_type) == PyDefaults[First({i \in 1..4 : ParamTypes[i] = java_type})]

\* the header the merged initializer has when its parameters are the
\* parameters params ("type name") of a constructor and those from index
\* least on (counted from 0) have a default
RECURSIVE MergedParams(_, _, _)
MergedParams(params, least, i) ==
    IF i > Len(params) THEN <<>>
    ELSE <<",", " ">> \o split(params[i].value)[2] \o <<":", " ">> \o PyOf(split(params[i].value)[1])
         \o (IF i - 1 >= least THEN <<" ", "=", " ">> \o PyDefaultOf(split(params[i].value)[1]) ELSE <<>>)
         \o MergedParams(params, least, i + 1)
MergedHeader(params, least) == <<" ", " ", " ", " ", "d", "e", "f", " ", "_", "_", "i", "n", "i", "t", "_", "_", "(", "s", "e", "l", "f">> \o MergedParams(params, least, 1) \o <<")", ":">>

\* the constructors of the class of a compilation unit
CtorsOf(root) == SelectSeq(root.children[1].children, IsCtor)
HasCtors(root) ==
    /\ root.type = "CompilationUnit" /\ Len(root.children) = 1
    /\ Len(CtorsOf(root)) >= 2

\* C11: a class with two or more constructors gets exactly one __init__;
\* its parameters are those of a constructor with the most parameters, in
\* order, and the parameter at index i has a default value of its type
\* exactly when i >= the least number of parameters of any constructor.
C11_ConstructorMerging ==
    python_code.done /\ HasCtors(ast) =>
        \E ctors \in {CtorsOf(ast)}, heads \in {InitHeaders(python_code.text)} :
            \E arities \in {{Arity(ctors[k]) : k \in DOMAIN ctors}} :
                /\ Len(heads) = 1
                /\ \E k \in DOMAIN ctors :
                       /\ Arity(ctors[k]) = Greatest(arities)
                       /\ heads[1] = MergedHeader(SelectSeq(ctors[k].children, IsParam),
                                                   Least(arities))

C11_Witness ==
    /\ python_code.done /\ HasCtors(ast)
    /\ java = <<"c", "l", "a", "s", "s", " ", "A", " ", "{", " ", "i", "n", "t", " ", "n", ";", " ", "A", "(", ")", " ", "{", " ", "}", " ", "A", "(", "i", "n", "t", " ", "a", ")", " ", "{", " ", "}", " ", "}">>
    /\ InitHeaders(python_code.text) = <<<<" ", " ", " ", " ", "d", "e", "f", " ", "_", "_", "i", "n", "i", "t", "_", "_", "(", "s", "e", "l", "f", ",", " ", "a", ":", " ", "i", "n", "t", " ", "=", " ", "0", ")", ":">>>>

\* the statements of an arm without its trailing break
ButTrailingBreak(stmts) ==
    IF stmts # <<>> /\ stmts[Len(stmts)].type = "Break"
    THEN SubSeq(stmts, 1, Len(stmts) - 1) ELSE stmts

RECURSIVE Renderings(_)
Renderings(stmts) ==
    IF stmts = <<>> THEN <<>>
    ELSE splitlines(_translate_node(Head(stmts), 2, FALSE)) \o Renderings(Tail(stmts))

\* the lines of the arm of a label
ArmOf(label) ==
    IF label.type = "CaseLabel"
    THEN <<<<" ", " ", " ", " ", "c", "a", "s", "e", " ">> \o _expr_to_source(label.children[1], FALSE) \o <<":">>>>
         \o Renderings(ButTrailingBreak(Tail(label.children)))
    ELSE <<<<" ", " ", " ", " ", "c", "a", "s", "e", " ", "_", ":">>>> \o Renderings(ButTrailingBreak(label.children))

RECURSIVE ArmsOf(_)
ArmsOf(labels) ==
    IF labels = <<>> THEN <<>> ELSE ArmOf(Head(labels)) \o ArmsOf(Tail(labels))

-----------------------------------------------------------------------------
(* The pipeline's specification: translate_java_to_python is called once   *)
(* on a source text typed piece by piece.  The text reaches the lexer as   *)
(* it was given: the temporary file it passes through is left out.         *)

MaxSource == 30

SourcePieces ==
    {<<"c", "l", "a", "s", "s", " ", "A", " ", "{">>, <<" ", "i", "n", "t", " ", "x", " ", "=", " ", "2", " ", "+", " ", "3", ";", " ", "}">>, <<" ", "i", "n", "t", " ", "y", " ", "=", " ", "x", " ", "+", " ", "0", ";", " ", "}">>, <<" ", "i", "n", "t", " ", "z", ";", " ", "}">>, <<"/", "/", " ", "c", "l", "a", "s", "s", "\n">>,
     <<"\"", "c", "l", "a", "s", "s", "\"">>, <<" ", "c", "l", "a", "s", "s", "y">>, <<"i", "n", "t", " ", "w", ";">>}

\* the outcome of translate_java_to_python(java_code): the text returned,
\* or the exception raised, or no return when the parser does not return
translate_java_to_python(source) ==
    IF source = <<>> \/ ~Contains(source, <<"c", "l", "a", "s", "s">>) THEN [st |-> "ValueError", text |-> <<>>]
    ELSE With(parse(_fill_tokens(source, 0)), LAMBDA r :
         IF r.st # "ok" THEN [st |-> r.st, text |-> <<>>]
         ELSE [st |-> "ok", text |-> translate(r.val)])

MainInit == MainIdle /\ OptIdle /\ LexIdle /\ ParseIdle /\ TransIdle /\ SemIdle /\ StreamIdle /\ OwnIdle /\ WalkIdle

Type ==
    /\ outcome.st = "none"
    /\ \E p \in SourcePieces :
           /\ Len(java_code) + Len(p) <= MaxSource
           /\ java_code' = java_code \o p
    /\ UNCHANGED <<outcome, notMainVars>>

Run ==
    /\ outcome.st = "none"
    /\ outcome' = translate_java_to_python(java_code)
    /\ UNCHANGED <<java_code, notMainVars>>

MainNext == Type \/ Run

SpecMain == MainInit /\ [][MainNext]_vars

\* C7: the text returned is the rendering of the AST as the optimizer
\* rewrites it.
C7_TextOfOptimizedAst ==
    outcome.st = "ok" =>
        outcome.text = translate(optimize(parse(_fill_tokens(java_code, 0)).val))

\* the parser makes of the text a CompilationUnit without a ClassDecl child
NoClassDecl(source) ==
    LET r == parse(_fill_tokens(source, 0))
    IN r.st = "ok" /\ \A i \in 1..Len(r.val.children) : r.val.children[i].type # "ClassDecl"

\* C8: on a source text without a class declaration the call ends with
\* ValueError.
C8_NoClassIsValueError ==
    outcome.st # "none" /\ NoClassDecl(java_code) => outcome.st = "ValueError"

-----------------------------------------------------------------------------
(* SemanticAnalyzer.  A type (TypeInfo) is the text of its name.  A        *)
(* diagnostic (SemanticError) is a record [msg, args]: msg names the fixed *)
(* words of the message, which the source writes in Russian, and args are  *)
(* the texts the message interpolates, in order.  Scope objects are a      *)
(* sequence of frames, the innermost last; a frame is the sequence of the  *)
(* VarInfo declared in it.                                                 *)

PRIMITIVES == {<<"b", "y", "t", "e">>, <<"s", "h", "o", "r", "t">>, <<"i", "n", "t">>, <<"l", "o", "n", "g">>, <<"f", "l", "o", "a", "t">>, <<"d", "o", "u", "b", "l", "e">>, <<"b", "o", "o", "l", "e", "a", "n">>, <<"c", "h", "a", "r">>}
UnknownType == <<"U", "n", "k", "n", "o", "w", "n">>

is_unknown(t) == t = UnknownType
is_primitive(t) == t \in PRIMITIVES
is_boolean(t) == t = <<"b", "o", "o", "l", "e", "a", "n">>
is_numeric(t) == t \in (PRIMITIVES \ {<<"b", "o", "o", "l", "e", "a", "n">>})
is_string(t) == t = <<"S", "t", "r", "i", "n", "g">>
is_array(t) == HasSuffix(t, <<"[", "]">>)
is_list(t) == HasPrefix(t, <<"L", "i", "s", "t", "<">>) /\ HasSuffix(t, <<">">>)

RECURSIVE DropBrackets(_)
DropBrackets(t) == IF HasSuffix(t, <<"[", "]">>) THEN DropBrackets(SubSeq(t, 1, Len(t) - 2)) ELSE t

element_type(t) ==
    IF is_array(t)
    THEN (IF Strip(DropBrackets(t)) # <<>> THEN Strip(DropBrackets(t)) ELSE UnknownType)
    ELSE IF is_list(t)
    THEN (IF Strip(SubSeq(t, 6, Len(t) - 1)) # <<>> THEN Strip(SubSeq(t, 6, Len(t) - 1))
          ELSE UnknownType)
    ELSE UnknownType

VarInfo(name, type) == [none |-> FALSE, name |-> name, type |-> type]
NoVar == [none |-> TRUE, name |-> <<>>, type |-> <<>>]

MethodInfo(name, return_type, param_types, is_static, is_constructor) ==
    [none |-> FALSE, name |-> name, return_type |-> return_type, param_types |-> param_types,
     is_static |-> is_static, is_constructor |-> is_constructor]
NoMethod ==
    [none |-> TRUE, name |-> <<>>, return_type |-> <<>>, param_types |-> <<>>,
     is_static |-> FALSE, is_constructor |-> FALSE]

\* fields and methods are dicts: name -> value, in insertion order; super_name
\* <<>> is None
ClassInfo(name) == [none |-> FALSE, name |-> name, fields |-> <<>>, methods |-> <<>>, super_name |-> <<>>]
NoClass == [none |-> TRUE, name |-> <<>>, fields |-> <<>>, methods |-> <<>>, super_name |-> <<>>]

\* SemanticError(msg) with the interpolated texts
SemanticError(msg, args) == [msg |-> msg, args |-> args]

\* self._error(...)
_error(errs, msg, args) == Append(errs, SemanticError(msg, args))

\* d.get(name) on a sequence of records with a name
Named(records, name, none) ==
    IF \E i \in 1..Len(records) : records[i].name = name
    THEN records[First({i \in 1..Len(records) : records[i].name = name})]
    ELSE none

\* str(len(...))
CountText(n) == NatText(n)

_parse_type(type_str) == IF Strip(type_str) = <<>> THEN UnknownType ELSE Strip(type_str)

\* "lLfFdD"
SUFFIXES == {"l", "L", "f", "F", "d", "D"}

_infer_literal_type(node) ==
    With(node.value, LAMBDA text :
    IF text = <<"t", "r", "u", "e">> \/ text = <<"f", "a", "l", "s", "e">> THEN <<"b", "o", "o", "l", "e", "a", "n">>
    ELSE IF text = <<"n", "u", "l", "l">> THEN <<"n", "u", "l", "l">>
    ELSE IF HasPrefix(text, <<"\"">>) /\ HasSuffix(text, <<"\"">>) THEN <<"S", "t", "r", "i", "n", "g">>
    ELSE IF HasPrefix(text, <<"'">>) /\ HasSuffix(text, <<"'">>) /\ Len(text) >= 3 THEN <<"c", "h", "a", "r">>
    ELSE With(IF text = <<>> \/ text[Len(text)] \in SUFFIXES
              THEN SubSeq(text, 1, Len(text) - 1) ELSE text, LAMBDA num :
         IF IsPyInt(num) THEN <<"i", "n", "t">>
         ELSE IF IsPyFloat(num) THEN <<"d", "o", "u", "b", "l", "e">>
         ELSE UnknownType))

_field_decl_to_varinfo(node) ==
    With(split(Strip(node.value)), LAMBDA parts :
    IF Len(parts) < 2 THEN NoVar
    ELSE VarInfo(parts[Len(parts)], _parse_type(JoinButLast(parts))))

IsStaticWord(m) == ToUpper(m) = <<"S", "T", "A", "T", "I", "C">>
_has_static_modifier(node) ==
    \E i \in 1..Len(node.children) :
        /\ node.children[i].type = "Modifiers"
        /\ SelectSeq(split(Replace(node.children[i].value, ",", <<" ">>)), IsStaticWord) # <<>>

\* the type of a parameter "T name" as _extract_method_info reads it
ParamTypeOf(p) ==
    With(split(Strip(p.value)), LAMBDA p_parts :
    IF Len(p_parts) > 1 THEN _parse_type(JoinButLast(p_parts)) ELSE _parse_type(p_parts[1]))

HasWords(p) == p.type = "Param" /\ split(Strip(p.value)) # <<>>

ParamTypesOf(node) ==
    With(SelectSeq(node.children, HasWords), LAMBDA ps :
    [i \in 1..Len(ps) |-> ParamTypeOf(ps[i])])

_extract_method_info(node, class_name, is_constructor) ==
    IF is_constructor
    THEN MethodInfo(class_name, <<"v", "o", "i", "d">>, ParamTypesOf(node), _has_static_modifier(node), TRUE)
    ELSE With(split(Strip(node.value)), LAMBDA parts :
         IF Len(parts) < 2 THEN NoMethod
         ELSE MethodInfo(parts[Len(parts)], _parse_type(JoinButLast(parts)),
                         ParamTypesOf(node), _has_static_modifier(node), FALSE))

global_var_limit == 128

\* the state of _register_class while it reads a class: the ClassInfo being
\* filled, the errors and global_var_count
Registering(ci, errs, count) == [ci |-> ci, errs |-> errs, count |-> count]

\* ci.methods[mi.name] = [mi]
OneOverload(mi) == [name |-> mi.name, overloads |-> <<mi>>]

NoOverloads == [name |-> <<>>, overloads |-> <<>>]

RegisterMethod(r, mi) ==
    IF mi.none THEN r
    ELSE IF \E i \in 1..Len(r.ci.methods) : r.ci.methods[i].name = mi.name
    THEN [r EXCEPT !.errs = _error(@, "method already declared in class", <<mi.name, r.ci.name>>)]
    ELSE [r EXCEPT !.ci.methods = Append(@, OneOverload(mi))]

RegisterField(r, var) ==
    IF var.none THEN r
    ELSE IF \E i \in 1..Len(r.ci.fields) : r.ci.fields[i].name = var.name
    THEN [r EXCEPT !.errs = _error(@, "field already declared in class", <<var.name, r.ci.name>>)]
    ELSE [r EXCEPT !.ci.fields = Append(@, var),
                   !.count = @ + 1,
                   !.errs = IF r.count + 1 > global_var_limit
                            THEN _error(@, "too many global identifiers", <<CountText(global_var_limit)>>)
                            ELSE @]

RegisterMember(r, child) ==
    IF child.type = "FieldDecl" THEN RegisterField(r, _field_decl_to_varinfo(child))
    ELSE IF child.type = "MethodDecl"
    THEN RegisterMethod(r, _extract_method_info(child, r.ci.name, FALSE))
    ELSE IF child.type = "ConstructorDecl"
    THEN RegisterMethod(r, _extract_method_info(child, r.ci.name, TRUE))
    ELSE r

RECURSIVE RegisterMembers(_, _)
RegisterMembers(r, children) ==
    IF children = <<>> THEN r
    ELSE RegisterMembers(RegisterMember(r, Head(children)), Tail(children))

\* the name after "extends" in the value of the last Base child that has the
\* two words "extends <name>"
IsExtends(child) ==
    /\ child.type = "Base" /\ child.value # <<>>
    /\ Len(split(child.value)) = 2 /\ split(child.value)[1] = <<"e", "x", "t", "e", "n", "d", "s">>
SuperName(children) ==
    With(SelectSeq(children, IsExtends), LAMBDA bases :
    IF bases = <<>> THEN <<>> ELSE split(bases[Len(bases)].value)[2])

\* node.value or "Anonymous"
ClassName(node) == IF node.value = <<>> THEN <<"A", "n", "o", "n", "y", "m", "o", "u", "s">> ELSE node.value

\* the analyzer's classes, errors and global_var_count
Analyzer(cls, errs, count) == [classes |-> cls, errors |-> errs, global_var_count |-> count]

_register_class(a, node) ==
    IF \E i \in 1..Len(a.classes) : a.classes[i].name = ClassName(node)
    THEN [a EXCEPT !.errors = _error(@, "class already declared", <<ClassName(node)>>)]
    ELSE With(RegisterMembers(
                  Registering([ClassInfo(ClassName(node)) EXCEPT !.super_name = SuperName(node.children)],
                              a.errors, a.global_var_count),
                  node.children), LAMBDA r :
         Analyzer(Append(a.classes, r.ci), r.errs, r.count))

\* Scope.resolve(name): the innermost declaration
RECURSIVE resolve(_, _)
resolve(frames, name) ==
    IF frames = <<>> THEN NoVar
    ELSE IF \E i \in 1..Len(frames[Len(frames)]) : frames[Len(frames)][i].name = name
    THEN Named(frames[Len(frames)], name, NoVar)
    ELSE resolve(SubSeq(frames, 1, Len(frames) - 1), name)

\* Scope.declare(var) on the innermost scope: the frames after it and what
\* it returned
declare(frames, var) ==
    IF \E i \in 1..Len(frames[Len(frames)]) : frames[Len(frames)][i].name = var.name
    THEN [ok |-> FALSE, frames |-> frames]
    ELSE [ok |-> TRUE, frames |-> [frames EXCEPT ![Len(frames)] = Append(@, var)]]

\* what the analysis of an expression gives: its type and the errors so far
TypeAnd(t, errs) == [t |-> t, errs |-> errs]

\* the analyzer's context while it is inside a method: classes, the class
\* ci and _current_method
Context(cls, ci, mi) == [classes |-> cls, ci |-> ci, mi |-> mi]

\* no assignment is reported
AcceptsAnyAssignment(target, rhs, errs) == errs
_check_assignment_compatibility(target, rhs, errs) ==
    IF is_unknown(target) \/ is_unknown(rhs) THEN errs
    ELSE IF is_primitive(target) \/ is_string(target) \/ is_primitive(rhs) \/ is_string(rhs)
    THEN (IF target # rhs THEN _error(errs, "assignment type mismatch", <<target, rhs>>) ELSE errs)
    ELSE errs

_check_condition_boolean(cond_type, is_loop, errs) ==
    IF is_unknown(cond_type) THEN errs
    ELSE IF ~is_boolean(cond_type)
    THEN (IF is_loop THEN _error(errs, "loop condition must be boolean", <<cond_type>>)
          ELSE _error(errs, "if condition must be boolean", <<cond_type>>))
    ELSE errs

_resolve_field_type(cls, class_name, field_name) ==
    With(Named(cls, class_name, NoClass), LAMBDA ci :
    IF ci.none THEN <<>>
    ELSE With(Named(ci.fields, field_name, NoVar), LAMBDA var :
         IF var.none THEN <<>> ELSE var.type))

\* types_compatible of _analyze_call
types_compatible(expected, actual) ==
    IF is_unknown(expected) \/ is_unknown(actual) THEN TRUE
    ELSE IF is_primitive(expected) \/ is_string(expected) \/ is_primitive(actual) \/ is_string(actual)
    THEN expected = actual
    ELSE TRUE

\* the overloads of method_name along the inheritance chain from current
RECURSIVE Candidates(_, _, _, _)
Candidates(cls, current, visited, method_name) ==
    IF current.none \/ current.name \in visited THEN <<>>
    ELSE Named(current.methods, method_name, NoOverloads).overloads
         \o (IF current.super_name = <<>> THEN <<>>
             ELSE Candidates(cls, Named(cls, current.super_name, NoClass),
                             visited \cup {current.name}, method_name))

Accepts(m, arg_types) ==
    \A i \in 1..Len(arg_types) : types_compatible(m.param_types[i], arg_types[i])

\* the overload the call resolves to among the candidates, or the error
Resolve(candidates, method_name, target_name, arg_types, errs) ==
    IF candidates = <<>>
    THEN TypeAnd(UnknownType, _error(errs, "method not found in class", <<method_name, target_name>>))
    ELSE With(SelectSeq(candidates, LAMBDA m : Len(m.param_types) = Len(arg_types)),
              LAMBDA same_arity :
         IF same_arity = <<>>
         THEN TypeAnd(UnknownType,
                      _error(errs, "argument count mismatch",
                             <<method_name, CountText(Len(candidates[1].param_types)),
                               CountText(Len(arg_types))>>))
         ELSE With(SelectSeq(same_arity, LAMBDA m : Accepts(m, arg_types)), LAMBDA fit :
              IF fit # <<>> THEN TypeAnd(fit[1].return_type, errs)
              ELSE TypeAnd(UnknownType,
                           _error(errs, "argument types mismatch",
                                  <<method_name, JoinComma(same_arity[1].param_types),
                                    JoinComma(arg_types)>>))))

RECURSIVE _analyze_expression(_, _, _, _)
RECURSIVE _analyze_lhs(_, _, _, _)
RECURSIVE _analyze_binary_op(_, _, _, _)
RECURSIVE _analyze_prefix_op(_, _, _, _)
RECURSIVE _analyze_postfix_op(_, _, _, _)
RECURSIVE _analyze_ternary(_, _, _, _)
RECURSIVE _analyze_call(_, _, _, _)
RECURSIVE AnalyzeAll(_, _, _, _)

\* the types of the expressions, analysed from left to right
AnalyzeAll(exprs, frames, cx, errs) ==
    IF exprs = <<>> THEN [types |-> <<>>, errs |-> errs]
    ELSE IF Head(exprs).type = "NoNode" THEN AnalyzeAll(Tail(exprs), frames, cx, errs)
    ELSE With(_analyze_expression(Head(exprs), frames, cx, errs), LAMBDA h :
         With(AnalyzeAll(Tail(exprs), frames, cx, h.errs), LAMBDA rest :
         [types |-> <<h.t>> \o rest.types, errs |-> rest.errs]))

InStatic(cx) == ~cx.mi.none /\ cx.mi.is_static

IdentifierType(node, frames, cx, errs) ==
    With(node.value, LAMBDA name :
    IF name = <<"t", "h", "i", "s">>
    THEN (IF InStatic(cx) THEN TypeAnd(UnknownType, _error(errs, "this in a static method", <<>>))
          ELSE TypeAnd(cx.ci.name, errs))
    ELSE IF name = <<"s", "u", "p", "e", "r">>
    THEN (IF InStatic(cx) THEN TypeAnd(UnknownType, _error(errs, "super in a static method", <<>>))
          ELSE IF cx.ci.super_name # <<>> THEN TypeAnd(cx.ci.super_name, errs)
          ELSE TypeAnd(UnknownType, errs))
    ELSE IF name = <<"S", "y", "s", "t", "e", "m">> THEN TypeAnd(UnknownType, errs)
    ELSE With(resolve(frames, name), LAMBDA var :
         IF var.none THEN TypeAnd(UnknownType, _error(errs, "identifier not declared", <<name>>))
         ELSE TypeAnd(var.type, errs)))

AssignType(node, frames, cx, errs) ==
    IF Len(node.children) < 2 THEN TypeAnd(UnknownType, errs)
    ELSE With(_analyze_lhs(node.children[1], frames, cx, errs), LAMBDA lhs :
         With(_analyze_expression(node.children[2], frames, cx, lhs.errs), LAMBDA rhs :
         TypeAnd(lhs.t, _check_assignment_compatibility(lhs.t, rhs.t, rhs.errs))))

_analyze_expression(node, frames, cx, errs) ==
    With(node.type, LAMBDA t :
    CASE t = "Literal" -> TypeAnd(_infer_literal_type(node), errs)
      [] t = "Identifier" -> IdentifierType(node, frames, cx, errs)
      [] t = "Member" -> _analyze_lhs(node, frames, cx, errs)
      [] t = "ArrayInit" ->
             TypeAnd(UnknownType, AnalyzeAll(node.children, frames, cx, errs).errs)
      [] t = "BinaryOp" -> _analyze_binary_op(node, frames, cx, errs)
      [] t = "PrefixOp" -> _analyze_prefix_op(node, frames, cx, errs)
      [] t = "PostfixOp" -> _analyze_postfix_op(node, frames, cx, errs)
      [] t = "Ternary" -> _analyze_ternary(node, frames, cx, errs)
      [] t = "Call" -> _analyze_call(node, frames, cx, errs)
      [] t = "Assign" -> AssignType(node, frames, cx, errs)
      [] OTHER -> TypeAnd(UnknownType, AnalyzeAll(node.children, frames, cx, errs).errs))

_analyze_lhs(node, frames, cx, errs) ==
    IF node.type = "Identifier" THEN _analyze_expression(node, frames, cx, errs)
    ELSE IF node.type = "Member" /\ node.children # <<>>
    THEN With(_analyze_expression(node.children[1], frames, cx, errs), LAMBDA base :
         IF is_unknown(base.t) THEN TypeAnd(UnknownType, base.errs)
         ELSE With(_resolve_field_type(cx.classes, base.t, node.value), LAMBDA field_type :
              IF field_type = <<>> THEN TypeAnd(UnknownType, base.errs)
              ELSE TypeAnd(field_type, base.errs)))
    ELSE _analyze_expression(node, frames, cx, errs)

ARITHMETIC == {"ADD", "SUB", "MUL", "DIV", "MOD"}
COMPARISON == {"LT", "GT", "LE", "GE", "EQ", "NE"}
LOGICAL == {"AND", "OR"}
BITWISE == {"BITAND", "BITOR", "CARET", "LSHIFT", "RSHIFT", "URSHIFT"}

\* str(node.value) of an operator node
OpText(op) == TypeName(op)

BinaryType(op, l, r, errs) ==
    IF is_unknown(l) \/ is_unknown(r) THEN TypeAnd(UnknownType, errs)
    ELSE IF op \in ARITHMETIC
    THEN (IF is_numeric(l) /\ is_numeric(r) THEN TypeAnd(l, errs)
          ELSE IF op = "ADD" /\ is_string(l) /\ is_string(r) THEN TypeAnd(l, errs)
          ELSE TypeAnd(UnknownType,
                       _error(errs, "binary operand types mismatch", <<OpText(op), l, r>>)))
    ELSE IF op \in COMPARISON
    THEN (IF l = r \/ (is_numeric(l) /\ is_numeric(r)) THEN TypeAnd(<<"b", "o", "o", "l", "e", "a", "n">>, errs)
          ELSE TypeAnd(<<"b", "o", "o", "l", "e", "a", "n">>,
                       _error(errs, "binary operand types mismatch", <<OpText(op), l, r>>)))
    ELSE IF op \in LOGICAL
    THEN (IF is_boolean(l) /\ is_boolean(r) THEN TypeAnd(<<"b", "o", "o", "l", "e", "a", "n">>, errs)
          ELSE TypeAnd(<<"b", "o", "o", "l", "e", "a", "n">>,
                       _error(errs, "logical operator needs boolean", <<OpText(op), l, r>>)))
    ELSE IF op \in BITWISE
    THEN (IF is_numeric(l) /\ is_numeric(r) THEN TypeAnd(l, errs)
          ELSE TypeAnd(UnknownType,
                       _error(errs, "bitwise operator needs numeric", <<OpText(op), l, r>>)))
    ELSE TypeAnd(UnknownType, errs)

\* the type of child i, or Unknown when there is no such child
ChildType(node, i, frames, cx, errs) ==
    IF Len(node.children) >= i THEN _analyze_expression(node.children[i], frames, cx, errs)
    ELSE TypeAnd(UnknownType, errs)

_analyze_binary_op(node, frames, cx, errs) ==
    With(ChildType(node, 1, frames, cx, errs), LAMBDA left :
    With(ChildType(node, 2, frames, cx, left.errs), LAMBDA right :
    BinaryType(node.value, left.t, right.t, right.errs)))

_analyze_prefix_op(node, frames, cx, errs) ==
    With(ChildType(node, 1, frames, cx, errs), LAMBDA inner :
    With(node.value, LAMBDA op :
    IF op \in {"INC", "DEC"}
    THEN (IF is_unknown(inner.t) THEN TypeAnd(UnknownType, inner.errs)
          ELSE IF ~is_numeric(inner.t)
          THEN TypeAnd(UnknownType,
                       _error(inner.errs, "operator needs numeric", <<OpText(op), inner.t>>))
          ELSE inner)
    ELSE IF op \in {"PLUS", "MINUS"}
    THEN (IF is_numeric(inner.t) \/ is_unknown(inner.t) THEN inner
          ELSE TypeAnd(UnknownType,
                       _error(inner.errs, "unary operator needs numeric", <<OpText(op), inner.t>>)))
    ELSE IF op = "NOT"
    THEN (IF is_unknown(inner.t) \/ is_boolean(inner.t) THEN TypeAnd(<<"b", "o", "o", "l", "e", "a", "n">>, inner.errs)
          ELSE TypeAnd(<<"b", "o", "o", "l", "e", "a", "n">>, _error(inner.errs, "! needs boolean", <<inner.t>>)))
    ELSE inner))

_analyze_postfix_op(node, frames, cx, errs) ==
    With(ChildType(node, 1, frames, cx, errs), LAMBDA inner :
    IF node.value \in {"INC", "DEC"}
    THEN (IF is_unknown(inner.t) THEN TypeAnd(UnknownType, inner.errs)
          ELSE IF ~is_numeric(inner.t)
          THEN TypeAnd(UnknownType,
                       _error(inner.errs, "operator needs numeric", <<OpText(node.value), inner.t>>))
          ELSE inner)
    ELSE inner)

_analyze_ternary(node, frames, cx, errs) ==
    IF Len(node.children) < 3
    THEN TypeAnd(UnknownType, AnalyzeAll(node.children, frames, cx, errs).errs)
    ELSE With(_analyze_expression(node.children[1], frames, cx, errs), LAMBDA cond :
         With(IF ~is_unknown(cond.t) /\ ~is_boolean(cond.t)
              THEN _error(cond.errs, "ternary condition must be boolean", <<cond.t>>)
              ELSE cond.errs, LAMBDA errs1 :
         With(_analyze_expression(node.children[2], frames, cx, errs1), LAMBDA then_ :
         With(_analyze_expression(node.children[3], frames, cx, then_.errs), LAMBDA else_ :
         IF is_unknown(then_.t) \/ is_unknown(else_.t) THEN TypeAnd(UnknownType, else_.errs)
         ELSE IF then_.t = else_.t THEN TypeAnd(then_.t, else_.errs)
         ELSE IF is_numeric(then_.t) /\ is_numeric(else_.t) THEN TypeAnd(then_.t, else_.errs)
         ELSE TypeAnd(UnknownType,
                      _error(else_.errs, "ternary branches incompatible", <<then_.t, else_.t>>))))))

\* the chain walk and the choice of an overload of method_name in target
CallOn(target, method_name, cx, args) ==
    IF target.none THEN TypeAnd(UnknownType, args.errs)
    ELSE Resolve(Candidates(cx.classes, target, {}, method_name), method_name, target.name,
                 args.types, args.errs)

\* the call base.method_name(...)
CallOnBase(base_expr, method_name, frames, cx, args) ==
    IF base_expr.type = "Identifier"
    THEN (IF base_expr.value = <<"t", "h", "i", "s">> THEN CallOn(cx.ci, method_name, cx, args)
          ELSE IF base_expr.value = <<"s", "u", "p", "e", "r">>
          THEN (IF cx.ci.super_name # <<>>
                THEN CallOn(Named(cx.classes, cx.ci.super_name, NoClass), method_name, cx, args)
                ELSE TypeAnd(UnknownType,
                             _error(args.errs, "super call in a class without base class", <<>>)))
          ELSE With(resolve(frames, base_expr.value), LAMBDA var :
               IF var.none \/ is_unknown(var.type) THEN TypeAnd(UnknownType, args.errs)
               ELSE CallOn(Named(cx.classes, var.type, NoClass), method_name, cx, args)))
    ELSE With(_analyze_expression(base_expr, frames, cx, args.errs), LAMBDA base :
         IF is_unknown(base.t) THEN TypeAnd(UnknownType, base.errs)
         ELSE CallOn(Named(cx.classes, base.t, NoClass), method_name, cx,
                     [args EXCEPT !.errs = base.errs]))

_analyze_call(node, frames, cx, errs) ==
    With(AnalyzeAll(node.children, frames, cx, errs), LAMBDA args :
    IF node.vnode = <<>> THEN TypeAnd(UnknownType, args.errs)
    ELSE With(node.vnode[1], LAMBDA callee :
         IF callee.type = "Identifier"
         THEN (IF callee.value \in {<<"t", "h", "i", "s">>, <<"s", "u", "p", "e", "r">>} THEN TypeAnd(UnknownType, args.errs)
               ELSE IF callee.value = <<>> THEN TypeAnd(UnknownType, args.errs)
               ELSE CallOn(cx.ci, callee.value, cx, args))
         ELSE IF callee.type = "Member"
         THEN (IF callee.value = <<>> THEN TypeAnd(UnknownType, args.errs)
               ELSE IF callee.children = <<>> THEN CallOn(cx.ci, callee.value, cx, args)
               ELSE CallOnBase(callee.children[1], callee.value, frames, cx, args))
         ELSE TypeAnd(UnknownType, _analyze_expression(callee, frames, cx, args.errs).errs)))

\* what the analysis of a statement gives: the scopes and the errors so far
Scoped(frames, errs) == [frames |-> frames, errs |-> errs]

\* the expression of the first Init child, or NoNode
FirstInit(node) ==
    With(SelectSeq(node.children, LAMBDA ch : ch.type = "Init"), LAMBDA inits :
    IF inits = <<>> \/ inits[1].children = <<>> THEN NoNode ELSE inits[1].children[1])

\* the expression of the first Init child that has children, or NoNode
FirstFilledInit(node) ==
    With(SelectSeq(node.children, LAMBDA ch : ch.type = "Init" /\ ch.children # <<>>),
         LAMBDA inits :
    IF inits = <<>> THEN NoNode ELSE inits[1].children[1])

\* the elements of an array initializer are analysed and checked against the
\* element type
RECURSIVE CheckElements(_, _, _, _, _)
CheckElements(elems, elem_expected, frames, cx, errs) ==
    IF elems = <<>> THEN errs
    ELSE IF Head(elems).type = "NoNode"
    THEN CheckElements(Tail(elems), elem_expected, frames, cx, errs)
    ELSE With(_analyze_expression(Head(elems), frames, cx, errs), LAMBDA e :
         CheckElements(Tail(elems), elem_expected, frames, cx,
                       _check_assignment_compatibility(elem_expected, e.t, e.errs)))

\* a declared variable is checked against its initializer
CheckInit(var, init_expr, frames, cx, errs) ==
    IF init_expr.type = "NoNode" THEN errs
    ELSE With(_analyze_expression(init_expr, frames, cx, errs), LAMBDA rhs :
         IF is_array(var.type) /\ init_expr.type = "ArrayInit"
         THEN CheckElements(init_expr.children, element_type(var.type), frames, cx, rhs.errs)
         ELSE _check_assignment_compatibility(var.type, rhs.t, rhs.errs))

\* the FieldDecl branch of _analyze_statement
LocalDecl(node, frames, cx, errs) ==
    With(_field_decl_to_varinfo(node), LAMBDA var :
    IF var.none THEN Scoped(frames, errs)
    ELSE With(declare(frames, var), LAMBDA d :
         Scoped(d.frames,
                CheckInit(var, FirstInit(node), d.frames, cx,
                          IF d.ok THEN errs
                          ELSE _error(errs, "variable redeclared", <<var.name>>)))))

\* expr is analysed when there is one
Analyzed(expr, frames, cx, errs) ==
    IF expr.type = "NoNode" THEN TypeAnd(<<>>, errs)
    ELSE _analyze_expression(expr, frames, cx, errs)

_analyze_return(node, frames, cx, errs) ==
    With(IF node.children = <<>> THEN NoNode ELSE node.children[1], LAMBDA expr :
    With(Analyzed(expr, frames, cx, errs), LAMBDA e :
    IF cx.mi.none THEN e.errs
    ELSE IF cx.mi.is_constructor
    THEN (IF expr.type # "NoNode"
          THEN _error(e.errs, "constructor cannot return a value", <<>>) ELSE e.errs)
    ELSE IF cx.mi.return_type = <<"v", "o", "i", "d">>
    THEN (IF expr.type # "NoNode"
          THEN _error(e.errs, "void method must not return a value", <<>>) ELSE e.errs)
    ELSE IF expr.type = "NoNode"
    THEN _error(e.errs, "method must return a value", <<cx.mi.return_type>>)
    ELSE _check_assignment_compatibility(cx.mi.return_type, e.t, e.errs)))

_types_compatible_for_switch(sw_type, case_type) ==
    \/ is_unknown(sw_type) \/ is_unknown(case_type)
    \/ sw_type = case_type
    \/ is_numeric(sw_type) /\ is_numeric(case_type)

RECURSIVE _analyze_statement(_, _, _, _)
RECURSIVE _analyze_block(_, _, _, _)
RECURSIVE _analyze_for_statement(_, _, _, _)
RECURSIVE _analyze_switch_statement(_, _, _, _)
RECURSIVE Statements(_, _, _, _)
RECURSIVE SwitchArms(_, _, _, _, _)

\* the statements are analysed in order in the same scope
Statements(stmts, frames, cx, errs) ==
    IF stmts = <<>> THEN Scoped(frames, errs)
    ELSE IF Head(stmts).type = "NoNode" THEN Statements(Tail(stmts), frames, cx, errs)
    ELSE With(_analyze_statement(Head(stmts), frames, cx, errs), LAMBDA s :
         Statements(Tail(stmts), s.frames, cx, s.errs))

\* block_depth_limit is None: the depth counter has no effect
_analyze_block(block, frames, cx, errs) ==
    With(Statements(block.children, Append(frames, <<>>), cx, errs), LAMBDA s :
    Scoped(SubSeq(s.frames, 1, Len(s.frames) - 1), s.errs))

\* for (T x : expr) body, in its own scope
ForEachLoop(children, frames, cx, errs) ==
    With(split(Strip(children[1].value)), LAMBDA parts :
    IF parts = <<>> THEN _analyze_block(children[3], frames, cx, errs)
    ELSE With(IF Len(parts) > 1 THEN _parse_type(JoinButLast(parts)) ELSE _parse_type(parts[1]),
              LAMBDA var_type :
         With([frames EXCEPT ![Len(frames)] = <<VarInfo(parts[Len(parts)], var_type)>>],
              LAMBDA loop :
         With(_analyze_expression(children[2], loop, cx, errs), LAMBDA coll :
         _analyze_block(children[3], loop, cx,
             IF ~is_unknown(coll.t) /\ (is_array(coll.t) \/ is_list(coll.t))
                /\ ~is_unknown(element_type(coll.t))
             THEN _check_assignment_compatibility(var_type, element_type(coll.t), coll.errs)
             ELSE coll.errs)))))

\* the declarations of the header of a for are declared and checked
RECURSIVE ForDecls(_, _, _, _, _)
ForDecls(children, body, frames, cx, errs) ==
    IF children = <<>> THEN Scoped(frames, errs)
    ELSE IF Len(children) = body \/ Head(children).type # "FieldDecl"
            \/ _field_decl_to_varinfo(Head(children)).none
    THEN ForDecls(Tail(children), body, frames, cx, errs)
    ELSE With(_field_decl_to_varinfo(Head(children)), LAMBDA var :
         With(declare(frames, var), LAMBDA d :
         ForDecls(Tail(children), body, d.frames, cx,
                  CheckInit(var,
                            FirstFilledInit(Head(children)), d.frames, cx,
                            IF d.ok THEN errs
                            ELSE _error(errs, "variable redeclared", <<var.name>>)))))

_analyze_for_statement(node, frames, cx, errs) ==
    With(SelectSeq(node.children, LAMBDA ch : ch.type # "NoNode"), LAMBDA children :
    IF children = <<>> THEN Scoped(frames, errs)
    ELSE IF Len(children) = 3 /\ children[1].type = "Param" /\ children[3].type = "Block"
    THEN Scoped(frames, ForEachLoop(children, Append(frames, <<>>), cx, errs).errs)
    ELSE With({i \in 1..Len(children) : children[i].type = "Block"}, LAMBDA blocks :
         With(IF blocks = {} THEN 0 ELSE CHOOSE i \in blocks : \A j \in blocks : j <= i,
              LAMBDA body :
         With(ForDecls(children, Len(children) - body + 1, Append(frames, <<>>), cx, errs),
              LAMBDA decls :
         With({i \in 1..Len(children) :
                  /\ body = 0 \/ i < body
                  /\ children[i].type \notin {"FieldDecl", "Block"}}, LAMBDA conds :
         With(IF conds = {} THEN decls.errs
              ELSE With(_analyze_expression(children[First(conds)], decls.frames, cx, decls.errs),
                        LAMBDA cond : _check_condition_boolean(cond.t, TRUE, cond.errs)),
              LAMBDA errs1 :
         IF body = 0 THEN Scoped(frames, errs1)
         ELSE Scoped(frames, _analyze_block(children[body], decls.frames, cx, errs1).errs)))))))

\* the arms of a switch on a value of type switch_type
SwitchArms(arms, switch_type, frames, cx, errs) ==
    IF arms = <<>> THEN Scoped(frames, errs)
    ELSE With(Head(arms), LAMBDA case_node :
         IF case_node.type = "NoNode" THEN SwitchArms(Tail(arms), switch_type, frames, cx, errs)
         ELSE IF case_node.type = "CaseLabel"
         THEN (IF case_node.children = <<>>
               THEN SwitchArms(Tail(arms), switch_type, frames, cx, errs)
               ELSE With(_analyze_expression(case_node.children[1], frames, cx, errs), LAMBDA c :
                    With(Statements(Tail(case_node.children), frames, cx,
                             IF _types_compatible_for_switch(switch_type, c.t) THEN c.errs
                             ELSE _error(c.errs, "case type does not agree with switch type",
                                         <<switch_type, c.t>>)), LAMBDA s :
                    SwitchArms(Tail(arms), switch_type, s.frames, cx, s.errs))))
         ELSE IF case_node.type = "DefaultLabel"
         THEN With(Statements(case_node.children, frames, cx, errs), LAMBDA s :
              SwitchArms(Tail(arms), switch_type, s.frames, cx, s.errs))
         ELSE With(_analyze_statement(case_node, frames, cx, errs), LAMBDA s :
              SwitchArms(Tail(arms), switch_type, s.frames, cx, s.errs)))

_analyze_switch_statement(node, frames, cx, errs) ==
    IF node.children = <<>> THEN Scoped(frames, errs)
    ELSE With(Analyzed(node.children[1], frames, cx, errs), LAMBDA sw :
         With(IF node.children[1].type = "NoNode" THEN UnknownType ELSE sw.t, LAMBDA switch_type :
         SwitchArms(Tail(node.children), switch_type, frames, cx,
                    IF ~is_unknown(switch_type) /\ is_boolean(switch_type)
                    THEN _error(sw.errs, "switch on boolean is not supported", <<>>)
                    ELSE sw.errs)))

\* the condition is analysed and must be boolean
Condition(cond_expr, is_loop, frames, cx, errs) ==
    With(_analyze_expression(cond_expr, frames, cx, errs), LAMBDA cond :
    _check_condition_boolean(cond.t, is_loop, cond.errs))

_analyze_statement(node, frames, cx, errs) ==
    With(node.type, LAMBDA t :
    CASE t = "Block" -> _analyze_block(node, frames, cx, errs)
      [] t = "FieldDecl" -> LocalDecl(node, frames, cx, errs)
      [] t = "ExprStmt" ->
             IF node.children = <<>> THEN Scoped(frames, errs)
             ELSE Scoped(frames, _analyze_expression(node.children[1], frames, cx, errs).errs)
      [] t = "Assign" ->
             IF Len(node.children) < 2 THEN Scoped(frames, errs)
             ELSE Scoped(frames, AssignType(node, frames, cx, errs).errs)
      [] t = "IfStatement" ->
             Statements(node.children, frames, cx,
                        IF node.vnode = <<>> \/ node.vnode[1].type = "NoNode" THEN errs
                        ELSE Condition(node.vnode[1], FALSE, frames, cx, errs))
      [] t = "WhileStatement" ->
             IF node.children = <<>> THEN Scoped(frames, errs)
             ELSE Statements(Tail(node.children), frames, cx,
                             Condition(node.children[1], TRUE, frames, cx, errs))
      [] t = "DoWhileStatement" ->
             With(IF Len(node.children) >= 2 /\ node.children[2].type # "NoNode"
                  THEN _analyze_statement(node.children[2], frames, cx, errs)
                  ELSE Scoped(frames, errs), LAMBDA body :
             IF node.children = <<>> \/ node.children[1].type = "NoNode" THEN body
             ELSE Scoped(body.frames, Condition(node.children[1], TRUE, body.frames, cx, body.errs)))
      [] t = "ForStatement" -> _analyze_for_statement(node, frames, cx, errs)
      [] t = "Return" -> Scoped(frames, _analyze_return(node, frames, cx, errs))
      [] t = "SwitchStatement" -> _analyze_switch_statement(node, frames, cx, errs)
      [] OTHER -> Statements(node.children, frames, cx, errs))

\* the parameters are declared in the scope of the method
RECURSIVE DeclareParams(_, _, _)
DeclareParams(children, frames, errs) ==
    IF children = <<>> THEN Scoped(frames, errs)
    ELSE IF ~HasWords(Head(children)) THEN DeclareParams(Tail(children), frames, errs)
    ELSE With(split(Strip(Head(children).value)), LAMBDA parts :
         With(declare(frames, VarInfo(parts[Len(parts)],
                                      IF Len(parts) = 1 THEN UnknownType
                                      ELSE _parse_type(JoinButLast(parts)))), LAMBDA d :
         DeclareParams(Tail(children), d.frames,
                       IF d.ok THEN errs
                       ELSE _error(errs, "parameter redeclared", <<parts[Len(parts)]>>))))

\* the scope of a method: this, and super when the class has a superclass,
\* unless the method is static
Receiver(ci, is_static) ==
    IF is_static THEN <<>>
    ELSE <<VarInfo(<<"t", "h", "i", "s">>, ci.name)>>
         \o (IF ci.super_name # <<>> THEN <<VarInfo(<<"s", "u", "p", "e", "r">>, ci.super_name)>> ELSE <<>>)

IsBodyNode(ch) == ch.type \notin {"NoNode", "Param", "Modifiers"}

_analyze_method_or_constructor(node, ci, class_scope, cls, errs) ==
    With(_extract_method_info(node, ci.name, node.type = "ConstructorDecl"), LAMBDA mi :
    With(IF mi.none THEN _has_static_modifier(node) ELSE mi.is_static, LAMBDA is_static :
    With(DeclareParams(node.children, <<class_scope, Receiver(ci, is_static)>>, errs),
         LAMBDA params :
    Statements(SelectSeq(node.children, IsBodyNode), params.frames, Context(cls, ci, mi),
               params.errs).errs)))

RECURSIVE AnalyzeMembers(_, _, _, _)
AnalyzeMembers(children, ci, cls, errs) ==
    IF children = <<>> THEN errs
    ELSE IF Head(children).type \in {"MethodDecl", "ConstructorDecl"}
    THEN AnalyzeMembers(Tail(children), ci, cls,
                        _analyze_method_or_constructor(Head(children), ci, ci.fields, cls, errs))
    ELSE AnalyzeMembers(Tail(children), ci, cls, errs)

_analyze_class(a, node) ==
    With(Named(a.classes, ClassName(node), NoClass), LAMBDA ci :
    IF ci.none THEN a
    ELSE [a EXCEPT !.errors = AnalyzeMembers(node.children, ci, a.classes, a.errors)])

RECURSIVE RegisterClasses(_, _)
RegisterClasses(a, children) ==
    IF children = <<>> THEN a
    ELSE IF Head(children).type = "ClassDecl"
    THEN RegisterClasses(_register_class(a, Head(children)), Tail(children))
    ELSE RegisterClasses(a, Tail(children))

RECURSIVE AnalyzeClasses(_, _)
AnalyzeClasses(a, children) ==
    IF children = <<>> THEN a
    ELSE IF Head(children).type = "ClassDecl"
    THEN AnalyzeClasses(_analyze_class(a, Head(children)), Tail(children))
    ELSE AnalyzeClasses(a, Tail(children))

\* analyze(ast): the analyzer after the call and how the call ended
analyze(root) ==
    IF root.type # "CompilationUnit"
    THEN [st |-> "SemanticError", a |-> Analyzer(<<>>, <<>>, 0)]
    ELSE [st |-> "ok",
          a |-> AnalyzeClasses(RegisterClasses(Analyzer(<<>>, <<>>, 0), root.children),
                               root.children)]

-----------------------------------------------------------------------------
(* The analyzer's specification: a program is written, read by the lexer   *)
(* and parsed, and analyze is called once on its AST.  The programs are a  *)
(* class with one initialized declaration, a class with two methods of one *)
(* name and a call of one of them, and a class that calls a method of the  *)
(* class it extends.                                                       *)

MaxParams == 2

DeclTypes == {<<"i", "n", "t">>, <<"b", "o", "o", "l", "e", "a", "n">>, <<"S", "t", "r", "i", "n", "g">>, <<"d", "o", "u", "b", "l", "e">>, <<"c", "h", "a", "r">>}
Initializers == {<<"1">>, <<"t", "r", "u", "e">>, <<"\"", "s", "\"">>, <<"1", ".", "5">>, <<"'", "c", "'">>}
Places == {"field", "method", "constructor"}

\* class A with the declaration T x = init; as a field or as a local variable
DeclSource(place, T, init) ==
    (IF place = "field" THEN <<"c", "l", "a", "s", "s", " ", "A", " ", "{", " ">>
     ELSE IF place = "method" THEN <<"c", "l", "a", "s", "s", " ", "A", " ", "{", " ", "v", "o", "i", "d", " ", "f", "(", ")", " ", "{", " ">> ELSE <<"c", "l", "a", "s", "s", " ", "A", " ", "{", " ", "A", "(", ")", " ", "{", " ">>)
    \o T \o <<" ", "x", " ", "=", " ">> \o init
    \o (IF place = "field" THEN <<";", " ", "}">> ELSE <<";", " ", "}", " ", "}">>)

\* n parameters int a, int b, ... and n arguments 1, 1, ...
IntParams(n) == JoinComma([i \in 1..n |-> <<"i", "n", "t", " ">> \o NameAt(i)])
IntArgs(n) == JoinComma([i \in 1..n |-> <<"1">>])

\* class A with int f of p parameters, boolean f of q parameters and a
\* method g that stores the result of f on n arguments in a variable of type T
OverloadSource(p, q, n, T) ==
    <<"c", "l", "a", "s", "s", " ", "A", " ", "{", " ", "i", "n", "t", " ", "f", "(">> \o IntParams(p) \o <<")", " ", "{", " ", "}", " ", "b", "o", "o", "l", "e", "a", "n", " ", "f", "(">> \o IntParams(q)
    \o <<")", " ", "{", " ", "}", " ", "v", "o", "i", "d", " ", "g", "(", ")", " ", "{", " ">> \o T \o <<" ", "x", " ", "=", " ", "f", "(">> \o IntArgs(n) \o <<")", ";", " ", "}", " ", "}">>

Receivers == {<<"m">>, <<"t", "h", "i", "s", ".", "m">>, <<"s", "u", "p", "e", "r", ".", "m">>}

ClassA(k) == <<"c", "l", "a", "s", "s", " ", "A", " ", "{", " ", "i", "n", "t", " ", "m", "(">> \o IntParams(k) \o <<")", " ", "{", " ", "}", " ", "}">>
ClassB(call, k) ==
    <<"c", "l", "a", "s", "s", " ", "B", " ", "e", "x", "t", "e", "n", "d", "s", " ", "A", " ", "{", " ", "v", "o", "i", "d", " ", "g", "(", ")", " ", "{", " ", "i", "n", "t", " ", "x", " ", "=", " ">> \o call \o <<"(">> \o IntArgs(k) \o <<")", ";", " ", "}", " ", "}">>

\* class A with int m of k parameters and class B extends A that calls it
InheritSource(a_first, call, k) ==
    IF a_first THEN ClassA(k) \o <<" ">> \o ClassB(call, k)
    ELSE ClassB(call, k) \o <<" ">> \o ClassA(k)

SemInit == SemIdle /\ OptIdle /\ LexIdle /\ ParseIdle /\ TransIdle /\ MainIdle /\ StreamIdle /\ OwnIdle /\ WalkIdle

\* the program is read by the lexer and parsed
Parsed(source) ==
    \E r \in {parse(_fill_tokens(source, 0))} :
        /\ r.st = "ok"
        /\ program' = source
        /\ unit' = r.val

WriteDecl ==
    /\ unit.type = "NoNode"
    /\ \E place \in Places, T \in DeclTypes, init \in Initializers :
           Parsed(DeclSource(place, T, init))
    /\ UNCHANGED <<classes, errors, notSemVars>>

WriteOverloads ==
    /\ unit.type = "NoNode"
    /\ \E p \in 0..MaxParams, q \in 0..MaxParams, first_called \in BOOLEAN :
           /\ p # q
           /\ Parsed(OverloadSource(p, q, IF first_called THEN p ELSE q,
                                    IF first_called THEN <<"i", "n", "t">> ELSE <<"b", "o", "o", "l", "e", "a", "n">>))
    /\ UNCHANGED <<classes, errors, notSemVars>>

WriteInherit ==
    /\ unit.type = "NoNode"
    /\ \E a_first \in BOOLEAN, call \in Receivers, k \in 0..MaxParams :
           Parsed(InheritSource(a_first, call, k))
    /\ UNCHANGED <<classes, errors, notSemVars>>

\* analyze(ast)
Analyze ==
    /\ unit.type # "NoNode" /\ errors.st = "none"
    /\ \E r \in {analyze(unit)} :
           /\ classes' = r.a.classes
           /\ errors' = [st |-> r.st, list |-> r.a.errors]
    /\ UNCHANGED <<program, unit, notSemVars>>

SemNext == WriteDecl \/ WriteOverloads \/ WriteInherit \/ Analyze

SpecSem == SemInit /\ [][SemNext]_vars

\* the type of an initializer of Initializers
LiteralType(init) ==
    IF init = <<"1">> THEN <<"i", "n", "t">>
    ELSE IF init = <<"t", "r", "u", "e">> THEN <<"b", "o", "o", "l", "e", "a", "n">>
    ELSE IF init = <<"\"", "s", "\"">> THEN <<"S", "t", "r", "i", "n", "g">>
    ELSE IF init = <<"1", ".", "5">> THEN <<"d", "o", "u", "b", "l", "e">>
    ELSE <<"c", "h", "a", "r">>

\* C13: analyzing a variable declaration whose declared type is a primitive
\* or String and whose initializer has another known type gives exactly one
\* diagnostic, an assignment type mismatch that names the declared type and
\* the type of the initializer.
C13_OneMismatchDiagnostic ==
    \A place \in Places, T \in DeclTypes, init \in Initializers :
        /\ errors.st = "ok" /\ program = DeclSource(place, T, init)
        /\ T # LiteralType(init)
        => errors.list = <<SemanticError("assignment type mismatch", <<T, LiteralType(init)>>)>>

\* C13 (amended): a local variable declaration in a method or constructor
\* body whose declared type is a primitive or String and whose initializer
\* has another known type gives exactly one diagnostic, an assignment type
\* mismatch that names both types; the initializer of a field declared at
\* class level is not analyzed and gives no diagnostic.
C13_LocalMismatchDiagnostic ==
    \A place \in Places, T \in DeclTypes, init \in Initializers :
        /\ errors.st = "ok" /\ program = DeclSource(place, T, init)
        /\ T # LiteralType(init)
        => errors.list = IF place = "field" THEN <<>>
                         ELSE <<SemanticError("assignment type mismatch", <<T, LiteralType(init)>>)>>

C13_Witness ==
    /\ program = <<"c", "l", "a", "s", "s", " ", "A", " ", "{", " ", "v", "o", "i", "d", " ", "f", "(", ")", " ", "{", " ", "i", "n", "t", " ", "x", " ", "=", " ", "t", "r", "u", "e", ";", " ", "}", " ", "}">>
    /\ errors = [st |-> "ok", list |-> <<SemanticError("assignment type mismatch", <<<<"i", "n", "t">>, <<"b", "o", "o", "l", "e", "a", "n">>>>)>>]

\* the overloads recorded for the method name in the class name
OverloadsOf(class_name, name) ==
    Named(Named(classes, class_name, NoClass).methods, name, NoOverloads).overloads

\* C14: a method name maps to the list of all methods of that name in the
\* class, in order; two methods of one name with different numbers of
\* parameters give no diagnostic, and a call with as many arguments as one
\* of them has parameters gets that method's return type, without a
\* diagnostic.
C14_OverloadsResolve ==
    \A p \in 0..MaxParams, q \in 0..MaxParams :
        /\ errors.st = "ok" /\ p # q
        /\ \/ program = OverloadSource(p, q, p, <<"i", "n", "t">>)
           \/ program = OverloadSource(p, q, q, <<"b", "o", "o", "l", "e", "a", "n">>)
        => /\ Len(OverloadsOf(<<"A">>, <<"f">>)) = 2
           /\ OverloadsOf(<<"A">>, <<"f">>)[1].return_type = <<"i", "n", "t">>
           /\ OverloadsOf(<<"A">>, <<"f">>)[2].return_type = <<"b", "o", "o", "l", "e", "a", "n">>
           /\ errors.list = <<>>

\* C15: for class B extends A, where A declares m and B does not, A is
\* recorded as the superclass of B and a call m(...), this.m(...) or
\* super.m(...) in a method of B resolves to the m of A, with its return
\* type and without a diagnostic.
C15_InheritedMethodFound ==
    \A a_first \in BOOLEAN, call \in Receivers, k \in 0..MaxParams :
        errors.st = "ok" /\ program = InheritSource(a_first, call, k)
        => /\ Named(classes, <<"B">>, NoClass).super_name = <<"A">>
           /\ errors.list = <<>>

-----------------------------------------------------------------------------
(* The analysis of method bodies: equalities and names declared in bodies. *)

\* the second operand of an equality, by its declared type
EqOperands == {<<<<"i", "n", "t">>, <<"2">>>>, <<<<"d", "o", "u", "b", "l", "e">>, <<"2", ".", "5">>>>, <<<<"c", "h", "a", "r">>, <<"'", "c", "'">>>>, <<<<"A">>, <<"n", "u", "l", "l">>>>,
               <<<<"b", "o", "o", "l", "e", "a", "n">>, <<"t", "r", "u", "e">>>>, <<<<"S", "t", "r", "i", "n", "g">>, <<"\"", "s", "\"">>>>}
EqOps == {<<"=", "=">>, <<"!", "=">>}
EqUses == {"int", "boolean", "if"}

\* a method with int a, T b and the equality a op b as the initializer of
\* an int, as the initializer of a boolean, or as the condition of an if
EqualitySource(operand, op, use) ==
    <<"c", "l", "a", "s", "s", " ", "A", " ", "{", " ", "v", "o", "i", "d", " ", "f", "(", ")", " ", "{", " ", "i", "n", "t", " ", "a", " ", "=", " ", "1", ";", " ">> \o operand[1] \o <<" ", "b", " ", "=", " ">> \o operand[2] \o <<";", " ">>
    \o (IF use = "int" THEN <<"i", "n", "t", " ", "y", " ", "=", " ", "(", "a", " ">> \o op \o <<" ", "b", ")", ";">>
        ELSE IF use = "boolean" THEN <<"b", "o", "o", "l", "e", "a", "n", " ", "y", " ", "=", " ", "a", " ">> \o op \o <<" ", "b", ";">>
        ELSE <<"i", "f", " ", "(", "a", " ">> \o op \o <<" ", "b", ")", " ", "{", " ", "}">>)
    \o <<" ", "}", " ", "}">>

\* method bodies that declare x in a body of their own: <<text, case>>, where
\* the case is "siblings" (x declared in two bodies side by side), "after"
\* (x used after the body that declares it), "nested" (x declared in the
\* method and again in a body inside it) or "same" (x declared twice in one
\* body)
ScopeCases ==
    {<<<<"i", "f", " ", "(", "c", ")", " ", "{", " ", "i", "n", "t", " ", "x", " ", "=", " ", "1", ";", " ", "}", " ", "e", "l", "s", "e", " ", "{", " ", "i", "n", "t", " ", "x", " ", "=", " ", "2", ";", " ", "}">>, "siblings">>,
     <<<<"{", " ", "i", "n", "t", " ", "x", " ", "=", " ", "1", ";", " ", "}", " ", "{", " ", "i", "n", "t", " ", "x", " ", "=", " ", "2", ";", " ", "}">>, "siblings">>,
     <<<<"t", "r", "y", " ", "{", " ", "i", "n", "t", " ", "x", " ", "=", " ", "1", ";", " ", "}", " ", "c", "a", "t", "c", "h", " ", "(", "E", " ", "e", ")", " ", "{", " ", "i", "n", "t", " ", "x", " ", "=", " ", "2", ";", " ", "}">>, "siblings">>,
     <<<<"t", "r", "y", " ", "{", " ", "i", "n", "t", " ", "x", " ", "=", " ", "1", ";", " ", "}", " ", "f", "i", "n", "a", "l", "l", "y", " ", "{", " ", "i", "n", "t", " ", "x", " ", "=", " ", "2", ";", " ", "}">>, "siblings">>,
     <<<<"w", "h", "i", "l", "e", " ", "(", "c", ")", " ", "{", " ", "i", "n", "t", " ", "x", " ", "=", " ", "1", ";", " ", "}", " ", "w", "h", "i", "l", "e", " ", "(", "c", ")", " ", "{", " ", "i", "n", "t", " ", "x", " ", "=", " ", "2", ";", " ", "}">>, "siblings">>,
     <<<<"i", "f", " ", "(", "c", ")", " ", "{", " ", "i", "n", "t", " ", "x", " ", "=", " ", "1", ";", " ", "}", " ", "x", " ", "=", " ", "2", ";">>, "after">>,
     <<<<"i", "f", " ", "(", "c", ")", " ", "{", " ", "}", " ", "e", "l", "s", "e", " ", "{", " ", "i", "n", "t", " ", "x", " ", "=", " ", "1", ";", " ", "}", " ", "x", " ", "=", " ", "2", ";">>, "after">>,
     <<<<"{", " ", "i", "n", "t", " ", "x", " ", "=", " ", "1", ";", " ", "}", " ", "x", " ", "=", " ", "2", ";">>, "after">>,
     <<<<"w", "h", "i", "l", "e", " ", "(", "c", ")", " ", "{", " ", "i", "n", "t", " ", "x", " ", "=", " ", "1", ";", " ", "}", " ", "x", " ", "=", " ", "2", ";">>, "after">>,
     <<<<"d", "o", " ", "{", " ", "i", "n", "t", " ", "x", " ", "=", " ", "1", ";", " ", "}", " ", "w", "h", "i", "l", "e", " ", "(", "c", ")", ";", " ", "x", " ", "=", " ", "2", ";">>, "after">>,
     <<<<"f", "o", "r", " ", "(", "i", "n", "t", " ", "i", " ", "=", " ", "0", ";", " ", "c", ";", " ", "i", "+", "+", ")", " ", "{", " ", "i", "n", "t", " ", "x", " ", "=", " ", "1", ";", " ", "}", " ", "x", " ", "=", " ", "2", ";">>, "after">>,
     <<<<"t", "r", "y", " ", "{", " ", "i", "n", "t", " ", "x", " ", "=", " ", "1", ";", " ", "}", " ", "f", "i", "n", "a", "l", "l", "y", " ", "{", " ", "}", " ", "x", " ", "=", " ", "2", ";">>, "after">>,
     <<<<"t", "r", "y", " ", "{", " ", "}", " ", "c", "a", "t", "c", "h", " ", "(", "E", " ", "e", ")", " ", "{", " ", "i", "n", "t", " ", "x", " ", "=", " ", "1", ";", " ", "}", " ", "x", " ", "=", " ", "2", ";">>, "after">>,
     <<<<"i", "n", "t", " ", "x", " ", "=", " ", "1", ";", " ", "{", " ", "i", "n", "t", " ", "x", " ", "=", " ", "2", ";", " ", "}">>, "nested">>,
     <<<<"i", "n", "t", " ", "x", " ", "=", " ", "1", ";", " ", "i", "n", "t", " ", "x", " ", "=", " ", "2", ";">>, "same">>,
     <<<<"{", " ", "i", "n", "t", " ", "x", " ", "=", " ", "1", ";", " ", "i", "n", "t", " ", "x", " ", "=", " ", "2", ";", " ", "}">>, "same">>,
     <<<<"i", "f", " ", "(", "c", ")", " ", "{", " ", "i", "n", "t", " ", "x", " ", "=", " ", "1", ";", " ", "i", "n", "t", " ", "x", " ", "=", " ", "2", ";", " ", "}">>, "same">>,
     <<<<"d", "o", " ", "{", " ", "i", "n", "t", " ", "x", " ", "=", " ", "1", ";", " ", "}", " ", "w", "h", "i", "l", "e", " ", "(", "c", ")", ";", " ", "d", "o", " ", "{", " ", "i", "n", "t", " ", "x", " ", "=", " ", "2", ";", " ", "}", " ", "w", "h", "i", "l", "e", " ", "(", "c", ")", ";">>, "siblings">>,
     <<<<"{", " ", "{", " ", "i", "n", "t", " ", "x", " ", "=", " ", "1", ";", " ", "}", " ", "x", " ", "=", " ", "2", ";", " ", "}">>, "after">>,
     <<<<"w", "h", "i", "l", "e", " ", "(", "c", ")", " ", "{", " ", "i", "n", "t", " ", "x", " ", "=", " ", "1", ";", " ", "i", "n", "t", " ", "x", " ", "=", " ", "2", ";", " ", "}">>, "same">>}

ScopeSource(body) == <<"c", "l", "a", "s", "s", " ", "A", " ", "{", " ", "v", "o", "i", "d", " ", "f", "(", ")", " ", "{", " ", "b", "o", "o", "l", "e", "a", "n", " ", "c", " ", "=", " ", "t", "r", "u", "e", ";", " ">> \o body \o <<" ", "}", " ", "}">>

WriteBody ==
    /\ unit.type = "NoNode"
    /\ \E source \in {EqualitySource(operand, op, use) :
                          operand \in EqOperands, op \in EqOps, use \in EqUses}
                     \cup {ScopeSource(case[1]) : case \in ScopeCases} :
           Parsed(source)
    /\ UNCHANGED <<classes, errors, notSemVars>>

BodyNext == WriteBody \/ Analyze

SpecBody == SemInit /\ [][BodyNext]_vars

\* the name the parser gives the operator in the BinaryOp node
EqOpName(op) == IF op = <<"=", "=">> THEN <<"E", "Q", "U", "A", "L">> ELSE <<"N", "O", "T", "E", "Q", "U", "A", "L">>

\* the operands of an equality agree: both numeric or of one type name
EqAgree(l, r) == (is_numeric(l) /\ is_numeric(r)) \/ l = r

\* C25: an equality of two operands of known types has type boolean, with a
\* type-mismatch diagnostic when the operands are neither both numeric nor
\* of one type name; so int y = (a == b); with int a, b reports an
\* assignment type mismatch of int and boolean, and if (a == b) and
\* boolean y = a == b; report none.
C25_EqualityIsBoolean ==
    \A operand \in EqOperands, op \in EqOps, use \in EqUses :
        errors.st = "ok" /\ program = EqualitySource(operand, op, use)
        => errors.list
              = (IF EqAgree(<<"i", "n", "t">>, operand[1]) THEN <<>>
                 ELSE <<SemanticError("binary operand types mismatch",
                                      <<EqOpName(op), <<"i", "n", "t">>, operand[1]>>)>>)
                \o (IF use = "int"
                    THEN <<SemanticError("assignment type mismatch", <<<<"i", "n", "t">>, <<"b", "o", "o", "l", "e", "a", "n">>>>)>>
                    ELSE <<>>)

\* C26: every brace-delimited body is analyzed in a scope of its own: a name
\* declared in two bodies side by side, or in the method and again in a body
\* inside it, gives no diagnostic; a name used after the body that declares
\* it is not declared there; a name declared twice in one body is a
\* redeclaration.
C26_BodiesHaveOwnScope ==
    \A case \in ScopeCases :
        errors.st = "ok" /\ program = ScopeSource(case[1])
        => errors.list
              = IF case[2] = "after" THEN <<SemanticError("identifier not declared", <<<<"x">>>>)>>
                ELSE IF case[2] = "same" THEN <<SemanticError("variable redeclared", <<<<"x">>>>)>>
                ELSE <<>>

-----------------------------------------------------------------------------
(* The folding specification: a BinaryOp over two leaves is written and    *)
(* optimize is called on it, twice on the same tree.  The leaves are       *)
(* integer literals up to MaxLiteral, a negative one, literals with a      *)
(* leading zero and with a suffix, floating, boolean and string literals   *)
(* and an identifier.                                                      *)

MaxLiteral == 8

IntLiterals == {Literal(IntText(n)) : n \in 0..MaxLiteral}

FoldOperands ==
    IntLiterals \cup
    {Literal(<<"-", "7">>), Literal(<<"0", "1", "0">>), Literal(<<"1", "0", "L">>),
     Literal(<<"0", ".", "0">>), Literal(<<"1", ".", "0">>), Literal(<<"2", ".", "5">>),
     Literal(kwTrue), Literal(kwFalse),
     Literal(<<"\"", "a", "\"">>), Literal(<<"\"", "b", "\"">>), Literal(<<"\"", "a", "\\", "\"", "\"">>),
     Identifier(<<"x">>)}

FoldOps == {"ADD", "SUB", "MUL", "DIV", "MOD", "LSHIFT", "RSHIFT", "URSHIFT", "AND", "OR"}

\* d has no prime factor but 2 and 5
RECURSIVE Terminating(_)
Terminating(d) ==
    IF d = 1 THEN TRUE
    ELSE IF d % 2 = 0 THEN Terminating(d \div 2)
    ELSE IF d % 5 = 0 THEN Terminating(d \div 5)
    ELSE FALSE

\* the folded value is one that the rational values print as str(float)
\* does: a quotient with a short decimal expansion (other quotients are
\* printed rounded to 17 significant digits) and no zero of negative sign
Printable(op, l, r) ==
    \E lv \in {_literal_to_value(l.value)}, rv \in {_literal_to_value(r.value)} :
        l.type = "Literal" /\ r.type = "Literal" /\ IsNum(lv) /\ IsNum(rv)
        => /\ op = "DIV" /\ rv.n # 0 => Terminating(PyTrueDiv(lv, rv).d)
           /\ op \in {"MUL", "DIV", "MOD"} /\ (lv.n < 0 \/ rv.n < 0) => lv.n # 0 /\ rv.n # 0

FoldInit ==
    /\ tree = NoNode
    /\ result = NoNode
    /\ first = NoNode
    /\ passes = 0
    /\ wraps = 0
    /\ LexIdle /\ ParseIdle /\ TransIdle /\ MainIdle /\ SemIdle /\ StreamIdle /\ OwnIdle /\ WalkIdle

WriteFold ==
    /\ passes = 0 /\ wraps = 0
    /\ \E op \in FoldOps, l \in FoldOperands, r \in FoldOperands :
           /\ Printable(op, l, r)
           /\ tree' = BinaryOp(op, l, r)
    /\ wraps' = 1
    /\ UNCHANGED <<result, first, passes>>
    /\ UNCHANGED notOptVars

\* optimizer.optimize(ast)
Fold ==
    /\ passes = 0 /\ wraps = 1
    /\ result' = optimize(tree)
    /\ first' = result'
    /\ passes' = 1
    /\ UNCHANGED <<tree, wraps>>
    /\ UNCHANGED notOptVars

\* optimizer.optimize(ast) on the same tree, in another run
FoldAgain ==
    /\ passes = 1
    /\ result' = optimize(tree)
    /\ passes' = 2
    /\ UNCHANGED <<tree, first, wraps>>
    /\ UNCHANGED notOptVars

FoldNext == WriteFold \/ Fold \/ FoldAgain

SpecFold == FoldInit /\ [][FoldNext]_vars

Folded == passes >= 1 /\ tree.type = "BinaryOp"
Left == tree.children[1]
Right == tree.children[2]

\* an integer literal of the source language: an optional sign, digits and
\* an optional suffix l or L
Magnitude(text) == IF text # <<>> /\ text[1] = "-" THEN Tail(text) ELSE text
Digits10(text) ==
    IF text # <<>> /\ text[Len(text)] \in {"l", "L"} THEN SubSeq(text, 1, Len(text) - 1) ELSE text
IsIntegerLiteral(node) ==
    node.type = "Literal" /\ AllDigits(Digits10(Magnitude(node.value)))
\* its decimal value
IntegerValue(node) ==
    IF node.value[1] = "-" THEN -DigitsVal(Digits10(Magnitude(node.value)))
    ELSE DigitsVal(Digits10(node.value))

IsStringLiteral(node) ==
    node.type = "Literal" /\ Len(node.value) >= 2
    /\ node.value[1] = "\"" /\ node.value[Len(node.value)] = "\""
Inner(node) == SubSeq(node.value, 2, Len(node.value) - 1)

Exact(op, a, b) == IF op = "ADD" THEN a + b ELSE IF op = "SUB" THEN a - b ELSE a * b

\* C16: ADD, SUB or MUL over two integer literals becomes the Literal of the
\* decimal text of the exact result, and ADD over two string literals
\* becomes the string Literal of their concatenation.
C16_FoldsSumsAndConcatenation ==
    /\ Folded /\ tree.value \in {"ADD", "SUB", "MUL"}
       /\ IsIntegerLiteral(Left) /\ IsIntegerLiteral(Right)
       => result = Literal(IntText(Exact(tree.value, IntegerValue(Left), IntegerValue(Right))))
    /\ Folded /\ tree.value = "ADD" /\ IsStringLiteral(Left) /\ IsStringLiteral(Right)
       => result = Literal(<<"\"">> \o Inner(Left) \o Inner(Right) \o <<"\"">>)

\* a numeric literal equal to zero: digits that are all 0, with at most one
\* point
IsZeroLiteral(node) ==
    /\ node.type = "Literal" /\ node.value # <<>>
    /\ \A i \in 1..Len(node.value) : node.value[i] \in {"0", "."}
    /\ Cardinality({i \in 1..Len(node.value) : node.value[i] = "."}) <= 1
    /\ \E i \in 1..Len(node.value) : node.value[i] = "0"

IsArithmetic(op) == op \in {"SUB", "MUL", "DIV", "MOD", "LSHIFT", "RSHIFT", "URSHIFT"}

IsIntegerOf(node, n) == IsIntegerLiteral(node) /\ IntegerValue(node) = n

\* what the simplification rules make of a BinaryOp that is not folded
Simplified(op, l, r) ==
    IF op = "ADD" /\ IsIntegerOf(l, 0) THEN r
    ELSE IF op \in {"ADD", "SUB"} /\ IsIntegerOf(r, 0) THEN l
    ELSE IF op = "MUL" /\ IsIntegerOf(l, 1) THEN r
    ELSE IF op = "MUL" /\ IsIntegerOf(r, 1) THEN l
    ELSE IF op = "AND" /\ l = Literal(kwTrue) THEN r
    ELSE IF op = "AND" /\ l = Literal(kwFalse) THEN l
    ELSE IF op = "OR" /\ l = Literal(kwTrue) THEN l
    ELSE IF op = "OR" /\ l = Literal(kwFalse) THEN r
    ELSE BinaryOp(op, l, r)

\* C18: a BinaryOp with an operand that is not a literal is rewritten to
\* its other operand exactly when that is the integer literal 0 (for +, -)
\* or 1 (for *), true && x and false || x become x, false && x and
\* true || x become the literal, and no other shape is rewritten.
C18_SimplifiesExactly ==
    Folded /\ (Left.type = "Identifier" \/ Right.type = "Identifier")
    => result = Simplified(tree.value, Left, Right)

\* C19: LSHIFT over integer literals a and b >= 0 folds to a * 2^b, RSHIFT
\* and URSHIFT fold to the arithmetic right shift of a by b.
C19_ShiftsFold ==
    Folded /\ tree.value \in {"LSHIFT", "RSHIFT", "URSHIFT"}
    /\ IsIntegerLiteral(Left) /\ IsIntegerLiteral(Right) /\ IntegerValue(Right) >= 0
    => result = Literal(IntText(IF tree.value = "LSHIFT"
                                THEN IntegerValue(Left) * Pow2(IntegerValue(Right))
                                ELSE IntegerValue(Left) \div Pow2(IntegerValue(Right))))

\* a / b truncated toward zero and the remainder with the sign of a
Quotient(a, b) ==
    IF (a < 0) = (b < 0) THEN Abs(a) \div Abs(b) ELSE -(Abs(a) \div Abs(b))
Remainder(a, b) == a - b * Quotient(a, b)

\* C20: DIV over integer literals a and b # 0 folds to the integer literal
\* of a / b truncated toward zero, MOD to the remainder with the sign of a,
\* and every run gives the same result.
C20_IntegerDivisionFolds ==
    /\ Folded /\ tree.value \in {"DIV", "MOD"}
       /\ IsIntegerLiteral(Left) /\ IsIntegerLiteral(Right) /\ IntegerValue(Right) # 0
       => result = Literal(IntText(IF tree.value = "DIV"
                                   THEN Quotient(IntegerValue(Left), IntegerValue(Right))
                                   ELSE Remainder(IntegerValue(Left), IntegerValue(Right))))
    /\ passes = 2 => result = first

-----------------------------------------------------------------------------
(* The lowering specification: a statement is written, read by the lexer   *)
(* and parsed by parse_statement, and translate is called once on its AST. *)
(* The statements are an assignment of an expression over three operands,  *)
(* with and without parentheses.                                           *)

JavaOps == <<<<"+">>, <<"-">>, <<"*">>, <<"=", "=">>, <<"&", "&">>, <<"|", "|">>, <<"&">>>>
Shapes == {"flat", "left", "right"}

\* r = x o1 y o2 z; with the parentheses of the shape
ExprSource(shape, o1, o2) ==
    <<"r", " ", "=", " ">>
    \o (IF shape = "left" THEN <<"(", "x", " ">> ELSE <<"x", " ">>)
    \o JavaOps[o1]
    \o (IF shape = "right" THEN <<" ", "(", "y", " ">> ELSE IF shape = "left" THEN <<" ", "y", ")", " ">> ELSE <<" ", "y", " ">>)
    \o JavaOps[o2]
    \o (IF shape = "right" THEN <<" ", "z", ")", ";">> ELSE <<" ", "z", ";">>)

MaxCount == 3

LoopConds == {<<"i", " ", "<", " ">>, <<"i", " ", "<", "=", " ">>, <<"i", " ", ">", " ">>, <<"i", " ", "!", "=", " ">>, <<>>}
LoopUpdates == {<<"i", "+", "+">>, <<"i", "-", "-">>, <<"+", "+", "i">>, <<"j", "+", "+">>}
LoopBodies == {<<"{", " ", "}">>, <<"{", " ", "f", "(", ")", ";", " ", "}">>, <<"{", " ", "c", "o", "n", "t", "i", "n", "u", "e", ";", " ", "}">>}

\* for (int i = S; cond E; update) body, the condition left out when cond
\* is empty
LoopSource(S, cond, E, update, body) ==
    <<"f", "o", "r", " ", "(", "i", "n", "t", " ", "i", " ", "=", " ">> \o NatText(S) \o <<";", " ">>
    \o (IF cond = <<>> THEN <<>> ELSE cond \o NatText(E))
    \o <<";", " ">> \o update \o <<")", " ">> \o body

\* number tokens with and without a fraction, an exponent and a suffix, and
\* the other literals
NumberTexts == {<<"0">>, <<"5">>, <<"0", "1", "0">>, <<"1", ".", "5">>, <<".", "5">>, <<"1", "e", "3">>, <<"5", "L">>, <<"1", "0", "l">>, <<"1", ".", "5", "f">>, <<"3", "F">>, <<"2", "d">>, <<"2", ".", "5", "D">>}
OtherLiterals == {<<"t", "r", "u", "e">>, <<"f", "a", "l", "s", "e">>, <<"n", "u", "l", "l">>, <<"\"", "s", "\"">>, <<"'", "c", "'">>}

\* x = literal;
LiteralSource(text) == <<"x", " ", "=", " ">> \o text \o <<";">>

SuiteBodies == {<<"{", " ", "}">>, <<"{", " ", "f", "(", ")", ";", " ", "}">>}
ArmBodies == {<<>>, <<"f", "(", ")", ";">>, <<"b", "r", "e", "a", "k", ";">>}

\* the statements with a suite: b and c are the bodies
SuiteSources(b, c) ==
    {<<"i", "f", " ", "(", "x", ")", " ">> \o b,
     <<"i", "f", " ", "(", "x", ")", " ">> \o b \o <<" ", "e", "l", "s", "e", " ">> \o c,
     <<"i", "f", " ", "(", "x", ")", " ">> \o b \o <<" ", "e", "l", "s", "e", " ", "i", "f", " ", "(", "y", ")", " ">> \o c,
     <<"t", "r", "y", " ">> \o b \o <<" ", "c", "a", "t", "c", "h", " ", "(", "E", " ", "e", ")", " ">> \o c,
     <<"t", "r", "y", " ">> \o b \o <<" ", "f", "i", "n", "a", "l", "l", "y", " ">> \o c,
     <<"w", "h", "i", "l", "e", " ", "(", "x", ")", " ">> \o b,
     <<"d", "o", " ">> \o b \o <<" ", "w", "h", "i", "l", "e", " ", "(", "x", ")", ";">>,
     <<"f", "o", "r", " ", "(", "i", "n", "t", " ", "v", " ", ":", " ", "x", "s", ")", " ">> \o b}

\* switch (x) { case 1: arm default: other }
ArmsSwitch(arm, other) == <<"s", "w", "i", "t", "c", "h", " ", "(", "x", ")", " ", "{", " ", "c", "a", "s", "e", " ", "1", ":", " ">> \o arm \o <<" ", "d", "e", "f", "a", "u", "l", "t", ":", " ">> \o other \o <<" ", "}">>

\* the classes with a constructor or a method of body b
MemberSources(b) ==
    {<<"c", "l", "a", "s", "s", " ", "A", " ", "{", " ", "}">>,
     <<"c", "l", "a", "s", "s", " ", "A", " ", "{", " ", "A", "(", ")", " ">> \o b \o <<" ", "}">>,
     <<"c", "l", "a", "s", "s", " ", "A", " ", "{", " ", "i", "n", "t", " ", "n", ";", " ", "A", "(", ")", " ">> \o b \o <<" ", "}">>,
     <<"c", "l", "a", "s", "s", " ", "A", " ", "{", " ", "v", "o", "i", "d", " ", "f", "(", ")", " ">> \o b \o <<" ", "}">>}

LowerInit == TransIdle /\ OptIdle /\ LexIdle /\ ParseIdle /\ MainIdle /\ SemIdle /\ StreamIdle /\ OwnIdle /\ WalkIdle

\* the statement is read by the lexer and parsed
Statement(source) ==
    \E r \in {parse_statement(_fill_tokens(source, 0), 0)} :
        /\ r.st = "ok"
        /\ java' = source
        /\ ast' = r.val

\* the statements written: expressions, counting loops, literals, statements
\* with suites and switches
StatementSources ==
    {ExprSource(shape, o1, o2) : shape \in Shapes, o1 \in DOMAIN JavaOps, o2 \in DOMAIN JavaOps}
    \cup {LoopSource(w[1], w[2], w[3], w[4], w[5]) :
              w \in {v \in (0..MaxCount) \X LoopConds \X (0..MaxCount) \X LoopUpdates \X LoopBodies :
                         v[2] = <<>> => v[3] = 0}}
    \cup {LiteralSource(text) : text \in NumberTexts \cup OtherLiterals}
    \cup UNION {SuiteSources(b, c) : b \in SuiteBodies, c \in SuiteBodies}
    \cup {ArmsSwitch(arm, other) : arm \in ArmBodies, other \in ArmBodies}

WriteStatement ==
    /\ ast.type = "NoNode" /\ ~python_code.done
    /\ \E source \in StatementSources : Statement(source)
    /\ UNCHANGED <<python_code, notTransVars>>

\* the class is read by the lexer and parsed by parse
WriteMembers ==
    /\ ast.type = "NoNode" /\ ~python_code.done
    /\ \E b \in SuiteBodies : \E source \in MemberSources(b) :
           \E r \in {parse(_fill_tokens(source, 0))} :
               /\ r.st = "ok"
               /\ java' = source
               /\ ast' = r.val
    /\ UNCHANGED <<python_code, notTransVars>>

\* Translator().translate(ast)
LowerStatement ==
    /\ ast.type # "NoNode" /\ ~python_code.done
    /\ python_code' = [done |-> TRUE, text |-> translate(ast)]
    /\ UNCHANGED <<java, ast, notTransVars>>

LowerNext == WriteStatement \/ WriteMembers \/ LowerStatement

SpecLower == LowerInit /\ [][LowerNext]_vars

\* the precedence of a binary operator of the target language
PyPrecedence(op) ==
    IF op = <<"o", "r">> THEN 1
    ELSE IF op = <<"a", "n", "d">> THEN 2
    ELSE IF op = <<"=", "=">> THEN 3
    ELSE IF op = <<"&">> THEN 4
    ELSE IF op \in {<<"+">>, <<"-">>} THEN 5
    ELSE 6

\* how the target language groups the words x o1 y o2 z of an expression:
\* by its parentheses, else by precedence, left to right among equals; two
\* comparisons in a row are a chain, which is neither grouping
PyGrouping(w) ==
    IF Len(w) # 5 THEN "none"
    ELSE IF StartsWith(w[1], "(") THEN "left"
    ELSE IF EndsWith(w[5], ")") THEN "right"
    ELSE IF w[2] = <<"=", "=">> /\ w[4] = <<"=", "=">> THEN "chain"
    ELSE IF PyPrecedence(w[2]) >= PyPrecedence(w[4]) THEN "left"
    ELSE "right"

\* how a BinaryOp over three operands groups them
AstGrouping(e) ==
    IF e.type # "BinaryOp" THEN "none"
    ELSE IF e.children[1].type = "BinaryOp" THEN "left"
    ELSE IF e.children[2].type = "BinaryOp" THEN "right"
    ELSE "none"

IsExprAssign == ast.type = "Assign" /\ ast.children[2].type = "BinaryOp"

\* C21: the text of an expression groups its operands as the AST does when
\* it is read with the precedence of the target language: a BinaryOp child
\* of lower precedence is rendered in parentheses.
C21_RenderingKeepsGrouping ==
    python_code.done /\ IsExprAssign
    => \E w \in {split(python_code.text)} :
           /\ Len(w) = 7 /\ w[1] = <<"r">> /\ w[2] = <<"=">>
           /\ PyGrouping(SubSeq(w, 3, 7)) = AstGrouping(ast.children[2])

MaxSteps == 6

\* the start value, the condition and the step on i of the parsed loop
\* for (int i = S; cond; update): the step is 0 when the update is of
\* another variable
LoopStartOf(node) == DigitsVal(node.children[1].children[1].children[1].value)
LoopCondOf(node) == node.children[2]
LoopDeltaOf(node) ==
    IF node.children[3].children[1].value # <<"i">> THEN 0
    ELSE IF node.children[3].value = "INC" THEN 1 ELSE -1

\* i op E in the source language; a missing condition holds
JavaHolds(i, cond) ==
    IF cond.type = "NoNode" THEN TRUE
    ELSE IF cond.value = "LT" THEN i < DigitsVal(cond.children[2].value)
    ELSE IF cond.value = "LE" THEN i <= DigitsVal(cond.children[2].value)
    ELSE IF cond.value = "GT" THEN i > DigitsVal(cond.children[2].value)
    ELSE i # DigitsVal(cond.children[2].value)

\* the values of i at the first fuel entries of the body of the source
\* loop; the body does not assign i, and continue goes on to the update
RECURSIVE JavaValues(_, _, _, _)
JavaValues(i, cond, delta, fuel) ==
    IF fuel = 0 \/ ~JavaHolds(i, cond) THEN <<>>
    ELSE <<i>> \o JavaValues(i + delta, cond, delta, fuel - 1)

JavaLoop(node) == JavaValues(LoopStartOf(node), LoopCondOf(node), LoopDeltaOf(node), MaxSteps)

IsRangeLoop(text) == IsPrefix(<<"f", "o", "r", " ", "i", " ", "i", "n", " ", "r", "a", "n", "g", "e", "(">>, FirstLine(text))

\* the number of an argument of range: digits, -digits or (digits) + 1
PyNumber(src) ==
    IF AllDigits(src) THEN DigitsVal(src)
    ELSE IF src[1] = "-" THEN -DigitsVal(Tail(src))
    ELSE DigitsVal(SubSeq(src, 2, Len(src) - 5)) + 1

\* the arguments of range in "for i in range(a, b):" or "(a, b, step):"
RangeStart(line) ==
    LET inner == SubSeq(line, 16, Len(line) - 2)
        c1 == First({k \in 1..Len(inner) : inner[k] = ","})
    IN PyNumber(SubSeq(inner, 1, c1 - 1))
RangeStop(line) ==
    LET inner == SubSeq(line, 16, Len(line) - 2)
        commas == {k \in 1..Len(inner) : inner[k] = ","}
        c1 == First(commas)
        c2 == IF Cardinality(commas) = 2 THEN First(commas \ {c1}) ELSE Len(inner) + 1
    IN PyNumber(SubSeq(inner, c1 + 2, c2 - 1))
RangeStep(line) ==
    LET inner == SubSeq(line, 16, Len(line) - 2)
        commas == {k \in 1..Len(inner) : inner[k] = ","}
        c1 == First(commas)
    IN IF Cardinality(commas) = 2
       THEN PyNumber(SubSeq(inner, First(commas \ {c1}) + 2, Len(inner)))
       ELSE 1

\* the first fuel values of range(a, b, step)
RECURSIVE RangeValues(_, _, _, _)
RangeValues(a, b, step, fuel) ==
    IF fuel = 0 \/ (step > 0 /\ a >= b) \/ (step < 0 /\ a <= b) THEN <<>>
    ELSE <<a>> \o RangeValues(a + step, b, step, fuel - 1)

RangeLoop(text) ==
    RangeValues(RangeStart(FirstLine(text)), RangeStop(FirstLine(text)),
                RangeStep(FirstLine(text)), MaxSteps)

\* the condition of "while cond:" in the target language
PyHolds(i, cond) ==
    IF cond = <<"T", "r", "u", "e">> THEN TRUE
    ELSE IF split(cond)[2] = <<"<">> THEN i < DigitsVal(split(cond)[3])
    ELSE IF split(cond)[2] = <<"<", "=">> THEN i <= DigitsVal(split(cond)[3])
    ELSE IF split(cond)[2] = <<">">> THEN i > DigitsVal(split(cond)[3])
    ELSE i # DigitsVal(split(cond)[3])

\* i after the lines of a suite are run from the first on: continue leaves
\* the suite, i += 1 and i -= 1 change i, every other line keeps it
RECURSIVE RunSuite(_, _)
RunSuite(lines, i) ==
    IF lines = <<>> \/ Strip(Head(lines)) = <<"c", "o", "n", "t", "i", "n", "u", "e">> THEN i
    ELSE IF Strip(Head(lines)) = <<"i", " ", "+", "=", " ", "1">> THEN RunSuite(Tail(lines), i + 1)
    ELSE IF Strip(Head(lines)) = <<"i", " ", "-", "=", " ", "1">> THEN RunSuite(Tail(lines), i - 1)
    ELSE RunSuite(Tail(lines), i)

\* the values of i at the first fuel entries of the suite of "while cond:"
RECURSIVE WhileValues(_, _, _, _)
WhileValues(i, cond, suite, fuel) ==
    IF fuel = 0 \/ ~PyHolds(i, cond) THEN <<>>
    ELSE <<i>> \o WhileValues(RunSuite(suite, i), cond, suite, fuel - 1)

\* the run of "i: int = S", "while cond:" and its suite
WhileRun(lines) ==
    WhileValues(DigitsVal(SubSeq(lines[1], 10, Len(lines[1]))),
                SubSeq(lines[2], 7, Len(lines[2]) - 1),
                SubSeq(lines, 3, Len(lines)), MaxSteps)

\* the text of the update of the parsed loop, as a statement of the target
\* language
UpdateLine(node) ==
    node.children[3].children[1].value
    \o (IF node.children[3].value = "INC" THEN <<" ", "+", "=", " ", "1">> ELSE <<" ", "-", "=", " ", "1">>)

StepsAway(node) ==
    \/ LoopCondOf(node).type # "NoNode" /\ LoopCondOf(node).value \in {"LT", "LE"}
       /\ LoopDeltaOf(node) = -1
    \/ LoopCondOf(node).type # "NoNode" /\ LoopCondOf(node).value = "GT"
       /\ LoopDeltaOf(node) = 1

\* the parsed statement is a for loop with initializer, condition, update
\* and body (the for-each loop has three children)
IsClassicFor == ast.type = "ForStatement" /\ Len(ast.children) = 4

\* C22: when the loop is rendered as for v in range(...), its update is an
\* increment or decrement of v and v takes the values it takes in the
\* source loop; a loop whose update is of another variable, or steps away
\* from the bound, is rendered in the while form and keeps its update.
C22_RangeOnlyWhenEquivalent ==
    python_code.done /\ IsClassicFor
    => /\ IsRangeLoop(python_code.text)
          => /\ LoopDeltaOf(ast) # 0
             /\ RangeLoop(python_code.text) = JavaLoop(ast)
       /\ LoopDeltaOf(ast) = 0 \/ StepsAway(ast)
          => /\ ~IsRangeLoop(python_code.text)
             /\ \E lines \in {splitlines(python_code.text)} :
                    Strip(lines[Len(lines)]) = UpdateLine(ast)

\* C23: in the while form the initializer runs once before the loop, a
\* missing condition is rendered as while True:, and i takes the values it
\* takes in the source loop: the update runs once after every iteration,
\* also after one that the body ends with continue.
C23_WhileFormEquivalent ==
    python_code.done /\ IsClassicFor /\ ~IsRangeLoop(python_code.text)
    => \E lines \in {splitlines(python_code.text)} :
           /\ lines[1] = <<"i", ":", " ", "i", "n", "t", " ", "=", " ">> \o NatText(LoopStartOf(ast))
           /\ LoopCondOf(ast).type = "NoNode" => lines[2] = <<"w", "h", "i", "l", "e", " ", "T", "r", "u", "e", ":">>
           /\ WhileRun(lines) = JavaLoop(ast)

\* a number text without its type suffix
Suffixless(text) ==
    IF text[Len(text)] \in {"l", "L", "f", "F", "d", "D"} THEN SubSeq(text, 1, Len(text) - 1)
    ELSE text

IsLiteralAssign == ast.type = "Assign" /\ ast.children[2].type = "Literal"

\* C24: a number token, with or without a one-letter type suffix, is
\* rendered as its digits without the suffix and never in quotes; true,
\* false and null are rendered as True, False and None, and a quoted
\* literal is rendered as it is.
C24_NumbersStayNumbers ==
    python_code.done /\ IsLiteralAssign
    => \E v \in {ast.children[2].value} :
           python_code.text = <<"x", " ", "=", " ">> \o
               (IF v = <<"t", "r", "u", "e">> THEN <<"T", "r", "u", "e">>
                ELSE IF v = <<"f", "a", "l", "s", "e">> THEN <<"F", "a", "l", "s", "e">>
                ELSE IF v = <<"n", "u", "l", "l">> THEN <<"N", "o", "n", "e">>
                ELSE IF v \in OtherLiterals THEN v
                ELSE Suffixless(v))

\* the number of blanks a line starts with
Indentation(line) == Len(line) - Len(LStrip(line))

\* a line that opens a suite
SuiteWords == {<<"c", "l", "a", "s", "s">>, <<"d", "e", "f">>, <<"i", "f">>, <<"e", "l", "i", "f">>, <<"e", "l", "s", "e", ":">>, <<"w", "h", "i", "l", "e">>, <<"f", "o", "r">>, <<"t", "r", "y", ":">>, <<"e", "x", "c", "e", "p", "t">>,
               <<"f", "i", "n", "a", "l", "l", "y", ":">>, <<"m", "a", "t", "c", "h">>, <<"c", "a", "s", "e">>}
OpensSuite(line) ==
    /\ Strip(line) # <<>> /\ EndsWith(Strip(line), ":")
    /\ split(line)[1] \in SuiteWords

\* C28: every line of the generated text that opens a suite is followed by
\* a line one level deeper.
C28_SuitesNotEmpty ==
    python_code.done
    => \E lines \in {splitlines(python_code.text)} :
           \A k \in 1..Len(lines) :
               OpensSuite(lines[k])
               => /\ k < Len(lines)
                  /\ Indentation(lines[k + 1]) = Indentation(lines[k]) + 4
-----------------------------------------------------------------------------
(* The token stream's specification: a TokenStream is constructed over a   *)
(* lexer, a parser is constructed over it, and LT, LA, consume, advance    *)
(* and the parser's lookahead predicates are called in any order.          *)

\* LT and LA are called with k from -1, before the buffer at pos 0, to MaxK
MaxK == 4
Ks == -1..MaxK

StreamCodes ==
    {<<>>, <<"x">>, <<"i", "n", "t", " ", "x", ";">>, <<"/", "*", " ", "c", " ", "*", "/", " ", "A", "(", ")", " ", "{", " ", "}">>, <<"p", "u", "b", "l", "i", "c", " ", "s", "t", "a", "t", "i", "c", " ", "A", "(", "i", "n", "t">>, <<"p", "u", "b", "l", "i", "c", " ", "v", "o", "i", "d", " ", "f", "(", ")", " ", "{", " ", "}">>,
     <<"L", "i", "s", "t", "<", "S", "t", "r", "i", "n", "g", ">", " ", "x", "s", ";">>, <<"L", "i", "s", "t", "<", "S", "t", "r", "i", "n", "g">>, <<"i", "n", "t", "[", "]", " ", "a", ";">>, <<"A", "[", "]", "[", "]", " ", "b", " ", "=", " ", "c", ";">>, <<"s", "t", "a", "t", "i", "c", " ", "i", "n", "t", " ", "f", "(">>, <<"A", " ", "x", " ", "=", " ", "y", ";">>}

ClassNames == {<<"A">>, <<"B">>}

\* TokenStream(lexer)
StreamInit ==
    /\ \E src \in StreamCodes : stream = [tokens |-> _fill_tokens(src, 0), pos |-> 0]
    /\ parser = NoCurrent /\ lastcall = NoCall
    /\ OptIdle /\ LexIdle /\ ParseIdle /\ TransIdle /\ MainIdle /\ SemIdle /\ OwnIdle /\ WalkIdle

Returned(name, k, token, answer) == [name |-> name, k |-> k, token |-> token, answer |-> answer]

\* SimpleJavaParser(tokens), then _current_class_name set by
\* parse_class_declaration
NewParser ==
    /\ parser = NoCurrent
    /\ \E class_name \in ClassNames :
       \E p \in {_skip_ignored(stream.tokens, stream.pos)} :
           /\ stream' = [stream EXCEPT !.pos = p]
           /\ parser' = [current |-> LT(stream.tokens, p, 1), _current_class_name |-> class_name]
    /\ lastcall' = Returned("SimpleJavaParser", 0, NoToken, "None")
    /\ UNCHANGED notStreamVars

\* tokens.LT(k)
CallLT ==
    /\ \E k \in Ks :
           lastcall' = Returned("LT", k, LT(stream.tokens, stream.pos, k), "None")
    /\ UNCHANGED <<stream, parser, notStreamVars>>

\* tokens.LA(k)
CallLA ==
    /\ \E k \in Ks :
           lastcall' = Returned("LA", k, NoToken, LT(stream.tokens, stream.pos, k).type)
    /\ UNCHANGED <<stream, parser, notStreamVars>>

\* tokens.consume()
CallConsume ==
    /\ stream' = [stream EXCEPT !.pos = consume(stream.tokens, stream.pos)]
    /\ lastcall' = Returned("consume", 0, NoToken, "None")
    /\ UNCHANGED <<parser, notStreamVars>>

\* parser.advance()
CallAdvance ==
    /\ parser # NoCurrent
    /\ \E p \in {advance(stream.tokens, stream.pos)} :
           /\ stream' = [stream EXCEPT !.pos = p]
           /\ parser' = [parser EXCEPT !.current = LT(stream.tokens, p, 1)]
    /\ lastcall' = Returned("advance", 0, NoToken, "None")
    /\ UNCHANGED notStreamVars

Answer(b) == IF b THEN "yes" ELSE "no"

\* parser._is_constructor_start(): it reads the stream through _peek_token
CallIsConstructorStart ==
    /\ parser # NoCurrent
    /\ lastcall' = Returned("_is_constructor_start", 0, NoToken,
                            Answer(_is_constructor_start(stream.tokens, stream.pos,
                                                         parser._current_class_name)))
    /\ UNCHANGED <<stream, parser, notStreamVars>>

\* parser._looks_like_method_decl(): it reads the stream through peek_type
CallLooksLikeMethodDecl ==
    /\ parser # NoCurrent
    /\ lastcall' = Returned("_looks_like_method_decl", 0, NoToken,
                            Answer(_looks_like_method_decl(stream.tokens, stream.pos)))
    /\ UNCHANGED <<stream, parser, notStreamVars>>

\* parser._looks_like_local_decl_start(): it reads the stream through
\* _peek_token and peek_type; a scan that never returns takes no step
CallLooksLikeLocalDeclStart ==
    /\ parser # NoCurrent
    /\ \E looks \in {_looks_like_local_decl_start(stream.tokens, stream.pos)} :
           /\ looks # "diverges"
           /\ lastcall' = Returned("_looks_like_local_decl_start", 0, NoToken, looks)
    /\ UNCHANGED <<stream, parser, notStreamVars>>

StreamNext ==
    \/ NewParser \/ CallLT \/ CallLA \/ CallConsume \/ CallAdvance
    \/ CallIsConstructorStart \/ CallLooksLikeMethodDecl \/ CallLooksLikeLocalDeclStart

SpecStream == StreamInit /\ [][StreamNext]_vars

\* the buffer ends in its only EOF token and pos indexes a token of it
StreamOk ==
    /\ Len(stream.tokens) >= 1
    /\ \A i \in 1..Len(stream.tokens) :
           stream.tokens[i].type = "EOF" <=> i = Len(stream.tokens)
    /\ 0 <= stream.pos /\ stream.pos <= Len(stream.tokens) - 1

Lookaheads == {"_is_constructor_start", "_looks_like_method_decl", "_looks_like_local_decl_start"}

\* what a call may change
CallOk ==
    /\ stream'.tokens = stream.tokens
    /\ stream'.pos >= stream.pos
    /\ lastcall'.name = "consume"
       => stream'.pos = IF stream.pos = Len(stream.tokens) - 1 THEN stream.pos
                        ELSE stream.pos + 1
    /\ lastcall'.name \in {"LT", "LA"} => stream' = stream
    /\ lastcall'.name = "LT" /\ stream.pos + lastcall'.k - 1 >= Len(stream.tokens)
       => lastcall'.token = stream.tokens[Len(stream.tokens)]
    /\ lastcall'.name \in Lookaheads => stream' = stream /\ parser' = parser

\* C29: the buffer is never empty, its last token is its only EOF token,
\* 0 <= pos <= len(tokens) - 1; no call changes the buffer or decreases pos,
\* consume adds one to pos unless pos indexes the EOF token, LT and LA leave
\* the stream as it is, LT(k) past the buffer returns the EOF token, and the
\* lookahead predicates leave the stream and the parser's current token as
\* they are.
C29_StreamInvariant == []StreamOk /\ [][CallOk]_vars

\* after a parser was constructed and pos advanced, LT was called for a
\* position past the buffer and returned the EOF token
C29_Witness ==
    /\ lastcall.name = "LT" /\ stream.pos + lastcall.k - 1 >= Len(stream.tokens)
    /\ lastcall.token.type = "EOF"
    /\ stream.pos > 0 /\ parser # NoCurrent
-----------------------------------------------------------------------------
(* The method lookup of _analyze_call, one iteration of its while loop per *)
(* step, over the registries of at most MaxClasses classes: every class    *)
(* may name as its base any registered class, itself, or a class that is   *)
(* not registered, and may or may not declare the method m looked up.      *)

MaxClasses == 2

\* the names of the classes 1..MaxClasses; the one after the last registered
\* class is the name of a class that is not registered
WalkNames == <<<<"A">>, <<"B">>, <<"C">>, <<"D">>, <<"E">>>>

SuperChoices(n) == {<<>>} \cup {WalkNames[i] : i \in 1..(n + 1)}

Registry(n, supers, declares) ==
    [i \in 1..n |->
        [ClassInfo(WalkNames[i]) EXCEPT
            !.super_name = supers[i],
            !.methods = IF declares[i]
                        THEN <<OneOverload(MethodInfo(<<"m">>, <<"i", "n", "t">>, <<>>, FALSE, FALSE))>>
                        ELSE <<>>]]

\* candidates = [], current = target_class, visited = set()
WalkInit ==
    /\ \E n \in 1..MaxClasses :
       \E supers \in [1..n -> SuperChoices(n)], declares \in [1..n -> BOOLEAN], t \in 1..n :
           /\ classes = Registry(n, supers, declares)
           /\ walk = [pc |-> "while", method_name |-> <<"m">>, target_class |-> WalkNames[t],
                      current |-> WalkNames[t], visited |-> {}, candidates |-> <<>>,
                      iterations |-> 0, type |-> <<>>]
    /\ program = <<>> /\ unit = NoNode /\ errors = NotAnalyzed
    /\ OptIdle /\ LexIdle /\ ParseIdle /\ TransIdle /\ MainIdle /\ StreamIdle /\ OwnIdle

\* while current is not None: the walk goes on whatever it has visited
LoopContinuesRevisiting(w) == w.current # <<>>
\* while current is not None and current.name not in visited
LoopContinues(w) == w.current # <<>> /\ w.current \notin w.visited

\* self.classes.get(name), as the name of the class found; <<>> is None
Get(name) == IF Named(classes, name, NoClass).none THEN <<>> ELSE name

\* one iteration of the loop
WalkStep ==
    /\ walk.pc = "while" /\ LoopContinues(walk)
    /\ \E cur \in {Named(classes, walk.current, NoClass)} :
           walk' = [walk EXCEPT
                       !.visited = @ \cup {cur.name},
                       !.candidates = @ \o Named(cur.methods, walk.method_name, NoOverloads).overloads,
                       !.iterations = @ + 1,
                       !.pc = IF cur.super_name = <<>> THEN "after" ELSE "while",
                       !.current = IF cur.super_name = <<>> THEN @ ELSE Get(cur.super_name)]
    /\ UNCHANGED <<semVars, notWalkVars>>

\* the loop condition is false
WalkExit ==
    /\ walk.pc = "while" /\ ~LoopContinues(walk)
    /\ walk' = [walk EXCEPT !.pc = "after"]
    /\ UNCHANGED <<semVars, notWalkVars>>

\* from "if not candidates" to the return, for a call without arguments
WalkResolve ==
    /\ walk.pc = "after"
    /\ \E r \in {Resolve(walk.candidates, walk.method_name, walk.target_class, <<>>, <<>>)} :
           /\ walk' = [walk EXCEPT !.pc = "done", !.type = r.t]
           /\ errors' = [st |-> "ok", list |-> r.errs]
    /\ UNCHANGED <<program, unit, classes, notWalkVars>>

WalkNext == WalkStep \/ WalkExit \/ WalkResolve

\* the walk is one call of _analyze_call: it runs on while it can
SpecWalk == WalkInit /\ [][WalkNext]_vars /\ WF_vars(WalkNext)

\* a class visited declares the method
DeclaredOnWalk ==
    \E name \in walk.visited : Named(Named(classes, name, NoClass).methods, walk.method_name, NoOverloads).overloads # <<>>

\* every iteration visits a class not visited before
VisitsOnce ==
    /\ walk.iterations = Cardinality(walk.visited)
    /\ walk.iterations <= Len(classes)

\* the walk collected what _analyze_call's lookup collects, and without a
\* declaration on the walk the call is reported once and has type Unknown
WalkOutcome ==
    walk.pc = "done"
    => /\ walk.candidates
            = Candidates(classes, Named(classes, walk.target_class, NoClass), {}, walk.method_name)
       /\ ~DeclaredOnWalk
          => /\ errors.list = <<SemanticError("method not found in class",
                                              <<walk.method_name, walk.target_class>>)>>
             /\ walk.type = UnknownType

\* C30: for every registry, with base-class chains that form a cycle or name
\* a class that is not registered, the lookup visits each class name at most
\* once and finishes; when no class on the walk declares the method the
\* outcome is one method-not-found diagnostic and the type Unknown.
C30_WalkTerminates == [](VisitsOnce /\ WalkOutcome) /\ <>(walk.pc = "done")

\* the walk ended on a cycle of two classes neither of which declares m
C30_Witness ==
    /\ walk.pc = "done" /\ walk.visited = {<<"A">>, <<"B">>}
    /\ Named(classes, <<"A">>, NoClass).super_name = <<"B">>
    /\ Named(classes, <<"B">>, NoClass).super_name = <<"A">>
    /\ ~DeclaredOnWalk
    /\ Len(errors.list) = 1
-----------------------------------------------------------------------------
(* The AST as objects.  An ASTNode object is a record of the heap, named   *)
(* by its index; its vnode and children hold the indices of the objects    *)
(* that its value and children attributes refer to.  parse_statement       *)
(* builds the objects of a statement that begins with an expression, and   *)
(* the optimizer rewrites them in place.                                   *)

Lhs == {<<"x">>, <<"a", ".", "b">>, <<"f", "(", "1", " ", "+", " ", "2", ")">>, <<"(", "0", " ", "+", " ", "x", ")">>, <<"f", "(", "x", " ", "*", " ", "1", ")", ".", "y">>, <<"g", "(", "t", "r", "u", "e", " ", "?", " ", "a", " ", ":", " ", "b", ")">>}
AssignOps == {<<"=">>, <<"+", "=">>, <<"-", "=">>, <<"*", "=">>, <<"<", "<", "=">>}
Rhs == {<<"1">>, <<"y">>, <<"1", " ", "+", " ", "2">>, <<"y", " ", "+", " ", "0">>, <<"x">>}

OwnSources ==
    {l \o <<" ">> \o op \o <<" ">> \o r \o <<";">> : l \in Lhs, op \in AssignOps, r \in Rhs}
    \cup {l \o <<";">> : l \in Lhs}

\* ASTNode(type_, value, children): a new object
NewNode(h, t, v, c) ==
    [heap |-> Append(h, [type |-> t, value |-> v, vnode |-> <<>>, children |-> c]),
     id |-> Len(h) + 1]

\* the objects parse_expression builds for the tree it returns: every node
\* of the tree is a new object, the children before their parent
RECURSIVE New(_, _)
RECURSIVE NewAll(_, _)
NewAll(h, nodes) ==
    IF nodes = <<>> THEN [heap |-> h, ids |-> <<>>]
    ELSE With(New(h, Head(nodes)), LAMBDA a :
         With(NewAll(a.heap, Tail(nodes)), LAMBDA rest :
         [heap |-> rest.heap, ids |-> <<a.id>> \o rest.ids]))

New(h, node) ==
    With(NewAll(h, node.vnode), LAMBDA v :
    With(NewAll(v.heap, node.children), LAMBDA c :
    [heap |-> Append(c.heap, [type |-> node.type, value |-> node.value,
                              vnode |-> v.ids, children |-> c.ids]),
     id |-> Len(c.heap) + 1]))

\* parse_statement from the expression on, with the objects it builds: in
\* the compound branch the object left is the first child of the Assign and
\* the first child of its BinaryOp
StatementObjects(toks, pos) ==
    Then(parse_expression(toks, pos, 0), LAMBDA left :
    With(LT(toks, left.pos, 1).type, LAMBDA op :
    With(New(<<>>, left.val), LAMBDA l :
    IF op = "ASSIGN" \/ op \in DOMAIN compound
    THEN Then(parse_expression(toks, advance(toks, left.pos), 0), LAMBDA right :
         With(New(l.heap, right.val), LAMBDA r :
         IF op = "ASSIGN"
         THEN Ok(accept(toks, right.pos, "SEMI"), NewNode(r.heap, "Assign", "None", <<l.id, r.id>>))
         ELSE With(NewNode(r.heap, "BinaryOp", compound[op], <<l.id, r.id>>), LAMBDA b :
              Ok(accept(toks, right.pos, "SEMI"),
                 NewNode(b.heap, "Assign", "None", <<l.id, b.id>>)))))
    ELSE Ok(accept(toks, left.pos, "SEMI"), NewNode(l.heap, "ExprStmt", "None", <<l.id>>)))))

\* the tree of values that the object id is the root of
RECURSIVE TreeOf(_, _)
TreeOf(h, id) ==
    [type |-> h[id].type, value |-> h[id].value,
     vnode |-> [i \in 1..Len(h[id].vnode) |-> TreeOf(h, h[id].vnode[i])],
     children |-> [i \in 1..Len(h[id].children) |-> TreeOf(h, h[id].children[i])]]

\* the local rules of _optimize_node on the object id, whose value and
\* children are optimized: a folded BinaryOp or PrefixOp is a new Literal
\* object, a simplified BinaryOp and a folded Ternary are one of the
\* children, anything else is the object itself
RulesOnObject(h, id) ==
    With(TreeOf(h, id), LAMBDA node :
    IF node.type = "BinaryOp" /\ enable_constant_folding
       /\ _try_constant_fold_binary(node) # NoNode
    THEN NewNode(h, "Literal", _try_constant_fold_binary(node).value, <<>>)
    ELSE IF node.type = "BinaryOp" /\ enable_simplify
    THEN With(_simplify_binary(node), LAMBDA r :
         [heap |-> h,
          id |-> IF r = node THEN id
                 ELSE IF r = node.children[1] THEN h[id].children[1]
                 ELSE h[id].children[2]])
    ELSE IF node.type = "PrefixOp" /\ enable_constant_folding
            /\ _try_constant_fold_prefix(node) # NoNode
    THEN NewNode(h, "Literal", _try_constant_fold_prefix(node).value, <<>>)
    ELSE IF node.type = "Ternary" /\ enable_constant_folding
            /\ _try_constant_fold_ternary(node) # NoNode
    THEN [heap |-> h,
          id |-> IF _literal_to_value(node.children[1].value).n = 1
                 THEN h[id].children[2] ELSE h[id].children[3]]
    ELSE [heap |-> h, id |-> id])

\* _optimize_node on the object id: node.value and node.children are
\* assigned the optimized objects, then the local rules apply
RECURSIVE ObjectOptimized(_, _)
RECURSIVE AllOptimized(_, _)
AllOptimized(h, ids) ==
    IF ids = <<>> THEN [heap |-> h, ids |-> <<>>]
    ELSE With(ObjectOptimized(h, Head(ids)), LAMBDA a :
         With(AllOptimized(a.heap, Tail(ids)), LAMBDA rest :
         [heap |-> rest.heap, ids |-> <<a.id>> \o rest.ids]))

ObjectOptimized(h, id) ==
    With(AllOptimized(h, h[id].vnode), LAMBDA v :
    With(AllOptimized([v.heap EXCEPT ![id].vnode = v.ids], h[id].children), LAMBDA c :
    RulesOnObject([c.heap EXCEPT ![id].children = c.ids], id)))

OwnInit ==
    /\ stmt = <<>> /\ heap = <<>> /\ top = 0
    /\ OptIdle /\ LexIdle /\ ParseIdle /\ TransIdle /\ MainIdle /\ SemIdle /\ StreamIdle
    /\ WalkIdle

\* parser.parse_statement() on the tokens of a statement
ParseObjects ==
    /\ top = 0
    /\ \E source \in OwnSources :
       \E r \in {StatementObjects(_fill_tokens(source, 0), 0)} :
           /\ r.st = "ok"
           /\ stmt' = source
           /\ heap' = r.val.heap
           /\ top' = r.val.id
    /\ UNCHANGED notOwnVars

\* AstOptimizer().optimize(root)
OptimizeObjects ==
    /\ top # 0
    /\ \E r \in {ObjectOptimized(heap, top)} :
           /\ heap' = r.heap
           /\ top' = r.id
    /\ UNCHANGED <<stmt, notOwnVars>>

OwnNext == ParseObjects \/ OptimizeObjects

SpecOwn == OwnInit /\ [][OwnNext]_vars

\* the objects met on the walk from the object id along value and children,
\* an object met on two paths counted twice
RECURSIVE Met(_, _)
RECURSIVE MetAll(_, _)
MetAll(h, ids) == IF ids = <<>> THEN <<>> ELSE Met(h, Head(ids)) \o MetAll(h, Tail(ids))
Met(h, id) == <<id>> \o MetAll(h, h[id].vnode) \o MetAll(h, h[id].children)

\* C27: the AST is a single-owner tree: no object is reached from the root
\* by two different paths; the desugared compound assignment holds two
\* distinct lhs objects.
C27_SingleOwner ==
    top # 0
    => \E met \in {Met(heap, top)} :
           \A i \in 1..Len(met), j \in 1..Len(met) : met[i] = met[j] => i = j

====
